---- MODULE Spec2Model ----
(***************************************************************************)
(* Two-pass ranking pipeline of the ATS backend.                           *)
(*   Pass 1  rank_resumes_for_job scores every resume on its own           *)
(*           (scorer.score_resume, whose last stage is apply_adjustments). *)
(*   Pass 2  calibrate_scores rescales the pool, pulls the scores toward   *)
(*           percentile bands, runs one consistency pass, re-sorts and     *)
(*           labels the candidates.                                        *)
(* Specification Spec is the ranking request; SpecAdj applies              *)
(* apply_adjustments to inputs drawn from bounded sets.  SpecScore calls   *)
(* score_resume on the signals of one resume and job, SpecUpgrade calls it *)
(* again on a resume with a better skill match or more experience,         *)
(* SpecMatch is match_skills on a text and a required list, SpecJob the    *)
(* role detection and skill tiering of a job, SpecYears                    *)
(* extract_years_of_experience on a text of tokens, SpecNorm               *)
(* normalize_text on a text of characters, SpecBatch the Pass-1 loop on    *)
(* resumes that fail, SpecFit _determine_role_fit.                         *)
(*                                                                         *)
(* Numbers.  Scores are Python ints.  experience_years and                 *)
(* candidate_years are floats with one decimal (the extractor rounds to    *)
(* one decimal); they are carried here in tenths of a year.  The float     *)
(* expressions of calibrate_scores are evaluated exactly over the          *)
(* rationals, then corrected on the inputs where IEEE-754 double           *)
(* arithmetic gives another integer (FloatBlendLow, band_target).          *)
(* The em dash of the recommendation texts is written "-".                 *)
(***************************************************************************)
EXTENDS Integers, Sequences, FiniteSets, TLC

\* ------------------------------------------------------------------------
\* Bounds of the model
\* ------------------------------------------------------------------------
\* number of resumes handed to one ranking request
MaxPool == 3
\* largest number of missing critical skills tried in SpecAdj
MaxCriticalMissing == 4

\* final scores the evaluator is let to produce in Spec (0..100 in the code)
ScoreVals == {0, 30, 70, 98, 100}
\* skill_match values of the breakdown tried in Spec
SkillVals == {40, 70}
\* experience_years values tried in Spec, in tenths of a year
YearVals == {10, 50}

None == "None"

Max(a, b) == IF a >= b THEN a ELSE b
Min(a, b) == IF a <= b THEN a ELSE b

\* the resumes of the request: (resume_id, filename) rows
Filenames == <<"a.pdf", "b.pdf", "c.pdf", "d.pdf", "e.pdf", "f.pdf", "g.pdf", "h.pdf">>

VARIABLES
    pc,        \* position of rank_resumes_for_job: "pass1" or "returned"
               \* (SpecAdj: "adjust", then "adjusted"; SpecScore: "score",
               \* "scored"; SpecUpgrade: "scored", "rescored"; SpecMatch:
               \* "match", "matched"; SpecJob: "job", "classified";
               \* SpecYears: "extract", "extracted"; SpecNorm: "normalize",
               \* "normalized", "renormalized"; SpecBatch: "pass1",
               \* "returned"; SpecFit: "fit", "fitted")
    pos,       \* number of resumes the Pass-1 loop has gone through
    results,   \* the results list (the pool)
    pre,       \* the list as it was handed to the latest calibrate_scores call
               \* (SpecUpgrade, SpecNorm: the arguments and result of the
               \* first call)
    calls,     \* number of calibrate_scores calls made on the list
    adj_in,    \* SpecAdj: the arguments of apply_adjustments
    adj_out,   \* SpecAdj: what apply_adjustments returned
    args,      \* SpecScore, SpecUpgrade, SpecMatch, SpecJob: the arguments of
               \* the call
    ret        \* what the call returned

vars == <<pc, pos, results, pre, calls, adj_in, adj_out, args, ret>>

\* ------------------------------------------------------------------------
\* scorer.py: the end of the evaluator
\* ------------------------------------------------------------------------
\* +5 for a senior candidate (8+ years) with strong skills
senior_boost(candidate_years, skill_score) ==
    IF candidate_years >= 80 /\ skill_score >= 65 THEN 5 ELSE 0

\* +3 for strong seniority signals
leadership_boost(seniority_score) ==
    IF seniority_score >= 70 THEN 3 ELSE 0

\* +2 for a rich bonus skill portfolio
bonus_boost(bonus_count) ==
    IF bonus_count >= 5 THEN 2 ELSE 0

\* variant: the penalty is not capped
critical_penalty_uncapped(n_critical_missing) ==
    IF n_critical_missing > 0 THEN n_critical_missing * 8 ELSE 0

\* 8 points per missing critical skill, at most 20
critical_penalty(n_critical_missing) ==
    IF n_critical_missing > 0 THEN Min(n_critical_missing * 8, 20) ELSE 0

\* 10 points when the role score is very low and the candidate has experience
mismatch_penalty(role_score, candidate_years) ==
    IF role_score < 25 /\ candidate_years >= 20 THEN 10 ELSE 0

\* the value of adj right before the final clamp
adjusted(a) ==
    a.base_score
      + senior_boost(a.candidate_years, a.skill_score)
      + leadership_boost(a.seniority_score)
      + bonus_boost(a.bonus_count)
      - critical_penalty(a.n_critical_missing)
      - mismatch_penalty(a.role_score, a.candidate_years)

\* variant: the penalty notes are appended ahead of the boost notes
adj_notes_penalties_first(a) ==
    (IF a.n_critical_missing > 0
        THEN <<"Missing " \o ToString(a.n_critical_missing)
               \o " critical skill(s) = -"
               \o ToString(critical_penalty(a.n_critical_missing)) \o " pts">>
        ELSE <<>>)
    \o (IF mismatch_penalty(a.role_score, a.candidate_years) > 0
        THEN <<"Domain mismatch penalty -10">> ELSE <<>>)
    \o (IF senior_boost(a.candidate_years, a.skill_score) > 0
        THEN <<"Senior + strong skills boost +5">> ELSE <<>>)
    \o (IF leadership_boost(a.seniority_score) > 0
        THEN <<"Strong leadership signals boost +3">> ELSE <<>>)
    \o (IF bonus_boost(a.bonus_count) > 0
        THEN <<"Rich bonus skill portfolio +2">> ELSE <<>>)

\* adj_notes, in the order the code appends them
adj_notes(a) ==
    (IF senior_boost(a.candidate_years, a.skill_score) > 0
        THEN <<"Senior + strong skills boost +5">> ELSE <<>>)
    \o (IF leadership_boost(a.seniority_score) > 0
        THEN <<"Strong leadership signals boost +3">> ELSE <<>>)
    \o (IF bonus_boost(a.bonus_count) > 0
        THEN <<"Rich bonus skill portfolio +2">> ELSE <<>>)
    \o (IF a.n_critical_missing > 0
        THEN <<"Missing " \o ToString(a.n_critical_missing)
               \o " critical skill(s) = -"
               \o ToString(critical_penalty(a.n_critical_missing)) \o " pts">>
        ELSE <<>>)
    \o (IF mismatch_penalty(a.role_score, a.candidate_years) > 0
        THEN <<"Domain mismatch penalty -10">> ELSE <<>>)

apply_adjustments(a) ==
    [score |-> Max(0, Min(100, adjusted(a))), notes |-> adj_notes(a)]

_assign_tier(score) ==
    IF score >= 90 THEN "A"
    ELSE IF score >= 80 THEN "B"
    ELSE IF score >= 70 THEN "C"
    ELSE IF score >= 60 THEN "D"
    ELSE "E"

\* the recommendation label generate_insights picks from the final score
recommendation(final_score) ==
    IF final_score >= 90 THEN "Strong Hire - Interview Immediately"
    ELSE IF final_score >= 80 THEN "Strong Hire"
    ELSE IF final_score >= 70 THEN "Good Candidate - Proceed to Interview"
    ELSE IF final_score >= 60 THEN "Moderate Fit - Consider"
    ELSE "Not Recommended"

\* What rank_resumes_for_job reads of the dict score_resume returns, for an
\* evaluation that ended with this final score, skill score and years.  The
\* texts of the insights are carried by the numbers they are formatted from.
score_resume(final_score, skill_score, candidate_years) ==
    [ final_score    |-> final_score,
      breakdown      |-> [skill_match |-> skill_score,
                          experience_years |-> candidate_years],
      matched_skills |-> IF skill_score >= 65 THEN <<"Python">> ELSE <<>>,
      missing_skills |-> IF skill_score >= 65 THEN <<>> ELSE <<"python">>,
      bonus_skills   |-> <<>>,
      insights       |-> [ key_strengths  |-> <<candidate_years>>,
                           gaps           |-> IF skill_score >= 65 THEN <<>>
                                              ELSE <<"python">>,
                           recommendation |-> recommendation(final_score),
                           reasoning      |-> <<final_score, skill_score,
                                                candidate_years>>,
                           tier           |-> _assign_tier(final_score),
                           comparative_rank           |-> None,
                           comparative_recommendation |-> None,
                           role_fit                   |-> None,
                           pool_size                  |-> 0 ] ]

\* ------------------------------------------------------------------------
\* job_ranker.py: Pass-2 helpers
\* ------------------------------------------------------------------------
_determine_role_fit_bands_only(score, skill_score) ==
    IF score >= 80 /\ skill_score >= 70 THEN "core_fit"
    ELSE IF score >= 65 THEN "adjacent_fit"
    ELSE IF score >= 50 THEN "weak_fit"
    ELSE "irrelevant"

_determine_role_fit(score, skill_score) ==
    IF score >= 80 /\ skill_score >= 70 THEN "core_fit"
    ELSE IF score >= 65 \/ skill_score >= 50 THEN "adjacent_fit"
    ELSE IF score >= 50 THEN "weak_fit"
    ELSE "irrelevant"

\* pct = 1.0 - idx / max(n - 1, 1) as the fraction PctNum / PctDen
PctDen(n) == Max(n - 1, 1)
PctNum(idx, n) == PctDen(n) - idx

\* pct >= h / 100
PctAtLeast(idx, n, h) == 100 * PctNum(idx, n) >= h * PctDen(n)

\* int(pct * k)
PctTimes(idx, n, k) == (k * PctNum(idx, n)) \div PctDen(n)

_comparative_label(rank_idx, pool_size) ==
    IF PctAtLeast(rank_idx, pool_size, 85) THEN "Top Candidate"
    ELSE IF PctAtLeast(rank_idx, pool_size, 60) THEN "Strong Candidate"
    ELSE IF PctAtLeast(rank_idx, pool_size, 35) THEN "Moderate Candidate"
    ELSE IF PctAtLeast(rank_idx, pool_size, 15) THEN "Below Average"
    ELSE "Weak Candidate"

\* variant: every label but the top one keeps the evaluator's text
_comparative_recommendation_keep_raw(label, raw_rec) ==
    IF label = "Top Candidate" THEN "Strong Hire - Prioritise Interview"
    ELSE IF raw_rec # "" THEN raw_rec
    ELSE "Consider - Further Screening Needed"

_comparative_recommendation(label, raw_rec) ==
    IF label = "Top Candidate" THEN "Strong Hire - Prioritise Interview"
    ELSE IF label = "Strong Candidate" THEN "Hire - Schedule Interview"
    ELSE IF label = "Moderate Candidate"
         THEN (IF raw_rec # "" THEN raw_rec
               ELSE "Consider - Further Screening Needed")
    ELSE IF label = "Below Average" THEN "Low Priority - Only if Pool is Thin"
    ELSE "Not Recommended"

\* ------------------------------------------------------------------------
\* job_ranker.py: calibrate_scores
\* ------------------------------------------------------------------------
\* for r in results: r["raw_score"] = r["score"]
preserve_raw_scores(rs) ==
    [i \in DOMAIN rs |-> [rs[i] EXCEPT !.raw_score = rs[i].score]]

RECURSIVE pool_max_upto(_, _)
pool_max_upto(rs, k) ==
    IF k = 1 THEN rs[1].raw_score
    ELSE Max(pool_max_upto(rs, k - 1), rs[k].raw_score)

RECURSIVE pool_min_upto(_, _)
pool_min_upto(rs, k) ==
    IF k = 1 THEN rs[1].raw_score
    ELSE Min(pool_min_upto(rs, k - 1), rs[k].raw_score)

pool_max(rs) == pool_max_upto(rs, Len(rs))
pool_min(rs) == pool_min_upto(rs, Len(rs))
pool_range(pmin, pmax) == Max(pmax - pmin, 1)

TARGET_TOP(pmax) == Max(90, Min(95, pmax + 8))
TARGET_BOT(pmin) == Max(25, pmin - 2)

\* The triples (pool_min, pool_max, raw), written
\* (pool_min * 101 + pool_max) * 101 + raw, on which the double evaluation of
\* scaled * 0.70 + raw * 0.30 lands just below the integer the exact value
\* is, so that int() gives one less.  All such triples with
\* 0 <= pool_min <= raw <= pool_max <= 100.
FloatBlendLow ==
    { 4048, 7080, 7100, 11014, 11721, 12433, 12838, 13155,
      13840, 13845, 13850, 13855, 13865, 13870, 14569, 15373,
      16675, 17389, 17409, 17908, 18124, 18823, 18838, 18868,
      20255, 23642, 24866, 26270, 28702, 31618, 32234, 32335,
      32937, 33042, 33439, 34450, 34460, 34470, 35472, 35865,
      36597, 37299, 38007, 38027, 38499, 42632, 43236, 45460,
      48296, 48316, 53033, 53036, 55055, 55065, 55070, 55571,
      58083, 58084, 58088, 58089, 58093, 58101, 58103, 58106,
      58108, 58111, 58113, 58116, 58118, 58121, 58123, 58625,
      61148, 62830, 64650, 67498, 67890, 68914, 68954, 69598,
      69608, 72627, 72831, 73135, 73543, 74245, 74260, 75665,
      75670, 75675, 75680, 77098, 77687, 78205, 79203, 79223,
      79243, 81247, 83840, 85264, 87484, 89512, 89532, 93234,
      93435, 93440, 95571, 95769, 96270, 96275, 96280, 96295,
      97281, 97697, 98304, 99126, 99801, 99821, 99861, 100548,
      101346, 101844, 107078, 110110, 110130, 114044, 115463, 115868,
      116870, 116875, 116880, 116885, 116895, 116900, 117599, 118403,
      119705, 120419, 120439, 121445, 126672, 127896, 129300, 131740,
      135365, 135967, 136072, 136469, 137480, 137490, 137500, 138502,
      138895, 139627, 140329, 141044, 141544, 145662, 146266, 148490,
      151538, 156063, 156066, 158085, 158095, 158100, 158601, 161113,
      161114, 161118, 161119, 161131, 161133, 161136, 161138, 161141,
      161143, 161146, 161148, 165860, 167680, 170528, 171948, 175657,
      175861, 176165, 176573, 177275, 178695, 178700, 178705, 178710,
      180128, 181235, 186870, 188294, 196264, 196465, 196470, 198601,
      198799, 199300, 199305, 199310, 199325, 200727, 201334, 202156,
      217074, 218493, 218898, 219900, 219910, 219915, 219930, 220629,
      221433, 222753, 230926, 238997, 239102, 240520, 240530, 241532,
      242657, 243341, 243386, 244574, 248692, 259096, 261125, 261130,
      261631, 264649, 264666, 264668, 264671, 264673, 264678, 264683,
      264712, 273558, 278891, 279195, 279603, 281725, 281730, 281735,
      281740, 283158, 284772, 290514, 292544, 294883, 299498, 299703,
      301523, 303053, 303738, 303758, 303783, 310510, 311223, 311942,
      312635, 315507, 316180, 320106, 322948, 323671, 325473, 331118,
      331215, 331722, 331727, 331825, 331835, 332532, 333956, 334673,
      336077, 345699, 346089, 351013, 351718, 351723, 351728, 352429,
      353243, 353753, 354568, 355768, 356078, 361520, 362530, 362535,
      362743, 366293, 367022, 371718, 373748, 375968, 377298, 381921,
      384757, 384762, 385765, 386915, 387592, 392529, 394559, 395079,
      402528, 403243, 403944, 405367, 406371, 406808, 407489, 412525,
      413540, 414253, 414967, 415665, 416065, 422728, 423841, 423943,
      427283, 434148, 436279, 437280, 446569, 447077, 447584, 448709,
      453738, 454548, 454748, 455758, 456568, 458288, 458323, 459004,
      466487, 467683, 474651, 475356, 476263, 476778, 477493, 478901,
      484951, 485757, 485762, 486370, 487077, 487275, 487798, 487808,
      488486, 495253, 498081, 508384, 508404, 509093, 509103, 516565,
      518707, 518717, 526166, 528990, 528995, 529731, 530416, 538792,
      539313, 539323, 540006, 546768, 548189, 548199, 548903, 550313,
      558489, 568798, 578386, 578788, 581246, 590307, 598283, 600104,
      601114, 601139, 609303, 609999, 610103, 620313, 621032, 629196,
      631313, 631333, 639797, 680711, 724062, 763133, 763848, 774150,
      774858, 805764, 835256, 866878, 886766, 886771, 907274, 937776,
      938286 }

\* int(scaled * 0.70 + raw * 0.30), scaled the linear interpolation of raw
\* across [TARGET_BOT, TARGET_TOP]
blend(raw, pmin, pmax) ==
    LET rng == pool_range(pmin, pmax)
        top == TARGET_TOP(pmax)
        bot == TARGET_BOT(pmin)
        \* (scaled * 7 + raw * 3) * rng
        num == 7 * (bot * rng + (raw - pmin) * (top - bot)) + 3 * raw * rng
        exact == num \div (10 * rng)
    IN  IF ((pmin * 101 + pmax) * 101 + raw) \in FloatBlendLow
        THEN exact - 1 ELSE exact

\* variant: no clamp
clamp_score_none(x) == x

\* blended = max(20, min(95, blended))
clamp_score(x) == Max(20, Min(95, x))

calibrated_score(raw, pmin, pmax) == clamp_score(blend(raw, pmin, pmax))

\* The band target of the candidate at index idx (from 0) of a pool of n.
\* For n <= 12 the double value of pct differs from the exact one in a way
\* that changes the result at (n, idx) = (6, 4), (11, 8) and (11, 9) only:
\* there 1.0 - idx / (n - 1) is just below 0.2, 0.2 and 0.1.
band_target(idx, n) ==
    IF n = 6 /\ idx = 4 THEN 39
    ELSE IF n = 11 /\ idx = 8 THEN 39
    ELSE IF n = 11 /\ idx = 9 THEN 34
    ELSE IF PctAtLeast(idx, n, 85) THEN 82 + PctTimes(idx, n, 13)
    ELSE IF PctAtLeast(idx, n, 65) THEN 70 + PctTimes(idx, n, 18)
    ELSE IF PctAtLeast(idx, n, 40) THEN 58 + PctTimes(idx, n, 29)
    ELSE IF PctAtLeast(idx, n, 20) THEN 45 + PctTimes(idx, n, 32)
    ELSE 30 + PctTimes(idx, n, 50)

\* final = int(score * 0.75 + band_target * 0.25), clamped
compressed_score(score, idx, n) ==
    clamp_score((3 * score + band_target(idx, n)) \div 4)

\* variant: the write-back also overwrites raw_score
write_scores_and_raw(rs) ==
    LET n == Len(rs)
        pmax == pool_max(rs)
        pmin == pool_min(rs)
    IN  [i \in DOMAIN rs |->
            [rs[i] EXCEPT
                !.score =
                    compressed_score(
                        calibrated_score(rs[i].raw_score, pmin, pmax),
                        i - 1, n),
                !.raw_score =
                    compressed_score(
                        calibrated_score(rs[i].raw_score, pmin, pmax),
                        i - 1, n)]]

\* the rescale, the banding and the write-back of the scores
write_scores(rs) ==
    LET n == Len(rs)
        pmax == pool_max(rs)
        pmin == pool_min(rs)
    IN  [i \in DOMAIN rs |->
            [rs[i] EXCEPT !.score =
                compressed_score(calibrated_score(rs[i].raw_score, pmin, pmax),
                                 i - 1, n)]]

\* variant: the comparison of skill and experience is not strict
inversion_not_strict(a, b) ==
    /\ b.breakdown.skill_match >= a.breakdown.skill_match
    /\ b.breakdown.experience_years >= a.breakdown.experience_years
    /\ b.score < a.score

\* b outranks a on both dimensions yet scores lower
inversion(a, b) ==
    /\ b.breakdown.skill_match > a.breakdown.skill_match
    /\ b.breakdown.experience_years > a.breakdown.experience_years
    /\ b.score < a.score

\* variant: the step never swaps
consistency_step_never(rs, i) == rs

\* variant: the step swaps the breakdowns along with the scores
consistency_step_with_breakdown(rs, i) ==
    IF inversion(rs[i], rs[i + 1])
    THEN [rs EXCEPT ![i].score = rs[i + 1].score,
                    ![i].breakdown = rs[i + 1].breakdown,
                    ![i + 1].score = rs[i].score,
                    ![i + 1].breakdown = rs[i].breakdown]
    ELSE rs

\* one step of the consistency loop: swap the scores of rs[i] and rs[i+1]
consistency_step(rs, i) ==
    IF inversion(rs[i], rs[i + 1])
    THEN [rs EXCEPT ![i].score = rs[i + 1].score,
                    ![i + 1].score = rs[i].score]
    ELSE rs

\* for i in range(len(results) - 1): one forward pass, from index i on
RECURSIVE consistency_from(_, _)
consistency_from(rs, i) ==
    IF i >= Len(rs) THEN rs
    ELSE consistency_from(consistency_step(rs, i), i + 1)

consistency_check(rs) == consistency_from(rs, 1)

\* list.sort(key=score, reverse=True): stable, entries of equal score keep
\* their order.  insert_desc puts e behind every entry whose score is >= its
\* own.
insert_desc(sorted, e) ==
    LET k == Cardinality({j \in DOMAIN sorted : sorted[j].score >= e.score})
    IN  SubSeq(sorted, 1, k) \o <<e>> \o SubSeq(sorted, k + 1, Len(sorted))

RECURSIVE sort_upto(_, _)
sort_upto(rs, k) ==
    IF k = 0 THEN <<>> ELSE insert_desc(sort_upto(rs, k - 1), rs[k])

\* variant: the list is left as it is
sort_by_score_skipped(rs) == rs

sort_by_score(rs) == sort_upto(rs, Len(rs))

\* the labelling loop, for the entry r at index rank_idx (from 0).  Every
\* entry Pass 1 appends carries the non-empty insights dict of score_resume,
\* so the two "if r.get('insights')" tests are true.
label_entry(r, rank_idx, n) ==
    LET comp_label == _comparative_label(rank_idx, n)
        role_fit == _determine_role_fit(r.score, r.breakdown.skill_match)
        raw_rec == r.insights.recommendation
        comp_rec == _comparative_recommendation(comp_label, raw_rec)
    IN  [r EXCEPT !.comparative_rank = comp_label,
                  !.role_fit = role_fit,
                  !.rank_position = rank_idx + 1,
                  !.insights.comparative_rank = comp_label,
                  !.insights.comparative_recommendation = comp_rec,
                  !.insights.role_fit = role_fit,
                  !.insights.pool_size = n,
                  !.insights.recommendation = comp_rec]

assign_labels(rs) ==
    [i \in DOMAIN rs |-> label_entry(rs[i], i - 1, Len(rs))]

\* the n == 1 branch
only_candidate(rs) ==
    <<[rs[1] EXCEPT !.comparative_rank = "Only Candidate",
                    !.role_fit = _determine_role_fit(rs[1].score,
                                     rs[1].breakdown.skill_match)]>>

\* variant: no branch for a pool of one
calibrate_scores_no_single(rs) ==
    IF Len(rs) = 0 THEN rs
    ELSE assign_labels(sort_by_score(consistency_check(
             write_scores(preserve_raw_scores(rs)))))

calibrate_scores(rs) ==
    IF Len(rs) = 0 THEN rs
    ELSE IF Len(rs) = 1 THEN only_candidate(preserve_raw_scores(rs))
    ELSE assign_labels(sort_by_score(consistency_check(
             write_scores(preserve_raw_scores(rs)))))

\* ------------------------------------------------------------------------
\* job_ranker.py: rank_resumes_for_job
\* ------------------------------------------------------------------------
\* the dict Pass 1 appends for a scored resume
result_entry(resume_id, score_data) ==
    [ resume_id        |-> resume_id,
      filename         |-> Filenames[resume_id],
      score            |-> score_data.final_score,
      raw_score        |-> score_data.final_score,
      breakdown        |-> score_data.breakdown,
      insights         |-> score_data.insights,
      matched_skills   |-> score_data.matched_skills,
      missing_skills   |-> score_data.missing_skills,
      bonus_skills     |-> score_data.bonus_skills,
      comparative_rank |-> None,
      role_fit         |-> None,
      rank_position    |-> 0 ]

Init ==
    /\ pc = "pass1"
    /\ pos = 0
    /\ results = <<>>
    /\ pre = <<>>
    /\ calls = 0
    /\ adj_in = None
    /\ adj_out = None
    /\ args = None
    /\ ret = None

\* One turn of the Pass-1 loop that ends in a continue: the file is missing,
\* parse_resume raises, the text is too short, or score_resume raises.
Pass1Skip ==
    /\ pc = "pass1"
    /\ pos < MaxPool
    /\ pos' = pos + 1
    /\ UNCHANGED <<pc, results, pre, calls, adj_in, adj_out, args, ret>>

\* One turn of the Pass-1 loop that scores the resume and appends its entry.
Pass1Score ==
    /\ pc = "pass1"
    /\ pos < MaxPool
    /\ \E fs \in ScoreVals, sk \in SkillVals, yr \in YearVals :
          results' = Append(results,
                            result_entry(pos + 1, score_resume(fs, sk, yr)))
    /\ pos' = pos + 1
    /\ UNCHANGED <<pc, pre, calls, adj_in, adj_out, args, ret>>

\* The loop is over and nothing was scored: return [].
ReturnEmpty ==
    /\ pc = "pass1"
    /\ pos = MaxPool
    /\ results = <<>>
    /\ pc' = "returned"
    /\ UNCHANGED <<pos, results, pre, calls, adj_in, adj_out, args, ret>>

\* The loop is over: sort by raw score, calibrate, return the list.
Pass2 ==
    /\ pc = "pass1"
    /\ pos = MaxPool
    /\ results # <<>>
    /\ pre' = sort_by_score(results)
    /\ results' = calibrate_scores(sort_by_score(results))
    /\ calls' = 1
    /\ pc' = "returned"
    /\ UNCHANGED <<pos, adj_in, adj_out, args, ret>>

\* The caller hands the returned list to calibrate_scores once more.
Recalibrate ==
    /\ pc = "returned"
    /\ calls = 1
    /\ pre' = results
    /\ results' = calibrate_scores(results)
    /\ calls' = 2
    /\ UNCHANGED <<pc, pos, adj_in, adj_out, args, ret>>

Next == Pass1Skip \/ Pass1Score \/ ReturnEmpty \/ Pass2 \/ Recalibrate

Spec == Init /\ [][Next]_vars

\* ------------------------------------------------------------------------
\* SpecAdj: apply_adjustments on inputs from bounded sets
\* ------------------------------------------------------------------------
AdjInputs ==
    [ base_score         : 0 .. 100,
      skill_score        : {64, 65},
      seniority_score    : {69, 70},
      role_score         : {24, 25},
      n_critical_missing : 0 .. MaxCriticalMissing,
      candidate_years    : {0, 19, 20, 79, 80},
      bonus_count        : {4, 5} ]

InitAdj ==
    /\ pc = "adjust"
    /\ pos = 0
    /\ results = <<>>
    /\ pre = <<>>
    /\ calls = 0
    /\ adj_in \in AdjInputs
    /\ adj_out = None
    /\ args = None
    /\ ret = None

\* One call of apply_adjustments on the drawn arguments.
ApplyAdjustments ==
    /\ pc = "adjust"
    /\ adj_out' = apply_adjustments(adj_in)
    /\ pc' = "adjusted"
    /\ UNCHANGED <<pos, results, pre, calls, adj_in, args, ret>>

NextAdj == ApplyAdjustments

SpecAdj == InitAdj /\ [][NextAdj]_vars

\* ------------------------------------------------------------------------
\* Properties
\* ------------------------------------------------------------------------
\* the entry of the candidate resume_id in the list rs
ById(rs, resume_id) ==
    rs[CHOOSE i \in DOMAIN rs : rs[i].resume_id = resume_id]

\* b has both strictly higher skill_match and strictly higher experience_years
Dominates(b, a) ==
    /\ b.breakdown.skill_match > a.breakdown.skill_match
    /\ b.breakdown.experience_years > a.breakdown.experience_years

\* a calibrate_scores call has returned
Calibrated == pc = "returned" /\ calls >= 1

IdsOf(rs) == [i \in DOMAIN rs |-> rs[i].resume_id]

\* C1 (as stated): after calibrate_scores on any non-empty pool, a single
\* candidate included, every score lies in [20,95].
C1_AnyPoolInBand ==
    Calibrated =>
        \A i \in DOMAIN results :
            results[i].score >= 20 /\ results[i].score <= 95

\* C1 (amended): after calibrate_scores on a pool of two or more candidates
\* every score lies in [20,95].
C1_MultiPoolInBand ==
    (Calibrated /\ Len(results) >= 2) =>
        \A i \in DOMAIN results :
            results[i].score >= 20 /\ results[i].score <= 95

\* a pool of two or more in which a raw score of 100 was brought down to 95
\* and a raw score of 0 was lifted
C1_Witness ==
    /\ Calibrated /\ calls = 1 /\ Len(results) >= 2
    /\ \E i \in DOMAIN results :
          results[i].raw_score = 100 /\ results[i].score = 95
    /\ \E i \in DOMAIN results :
          results[i].raw_score = 0 /\ results[i].score >= 20

\* C2: for the pool built by Pass 1, every entry's raw_score after
\* calibrate_scores is its raw_score before the call.
C2_RawScorePreserved ==
    (Calibrated /\ calls = 1) =>
        /\ Len(results) = Len(pre)
        /\ \A i \in DOMAIN pre :
              /\ pre[i].raw_score = pre[i].score
              /\ ById(results, pre[i].resume_id).raw_score = pre[i].raw_score

\* a calibrated pool in which a score was rewritten and swapped
C2_Witness ==
    /\ Calibrated /\ calls = 1 /\ Len(results) >= 2
    /\ \E i \in DOMAIN results : results[i].score # results[i].raw_score
    /\ IdsOf(results) # IdsOf(pre)

\* C3: for a pool of two or more the returned list is ordered by score,
\* non-increasing, and rank_position is the 1-based index.
C3_SortedAndRanked ==
    (Calibrated /\ Len(results) >= 2) =>
        /\ \A i \in 1 .. Len(results) - 1 :
              results[i].score >= results[i + 1].score
        /\ \A i \in DOMAIN results : results[i].rank_position = i

\* the consistency pass swapped two scores, so the re-sort moved entries
C3_Witness ==
    /\ Calibrated /\ calls = 1 /\ Len(results) >= 3
    /\ IdsOf(results) # IdsOf(pre)

\* no candidate of rs dominates the candidate immediately above it
NoDominanceBelow(rs) ==
    \A i \in 1 .. Len(rs) - 1 : ~Dominates(rs[i + 1], rs[i])

\* C4: if no candidate has both strictly higher skill_match and strictly
\* higher experience_years than the one immediately above it in the (sorted)
\* input, the output is in the input order, with non-increasing scores.
C4_OrderPreserved ==
    (Calibrated /\ NoDominanceBelow(pre)) =>
        /\ IdsOf(results) = IdsOf(pre)
        /\ \A i \in 1 .. Len(results) - 1 :
              results[i].score >= results[i + 1].score

\* three candidates with different skills and years, none dominating the one
\* above it, and strictly decreasing calibrated scores
C4_Witness ==
    /\ Calibrated /\ calls = 1 /\ Len(results) = 3
    /\ NoDominanceBelow(pre)
    /\ pre[1].breakdown.skill_match < pre[2].breakdown.skill_match
    /\ pre[2].breakdown.experience_years < pre[3].breakdown.experience_years
    /\ results[1].score > results[2].score
    /\ results[2].score > results[3].score

\* C5 (as stated): the output contains no adjacent pair in which the lower
\* placed candidate dominates the one above it and has a strictly lower score.
C5_NoAdjacentInversion ==
    (Calibrated /\ calls = 1 /\ Len(results) >= 2) =>
        \A i \in 1 .. Len(results) - 1 :
            ~(Dominates(results[i + 1], results[i])
              /\ results[i + 1].score < results[i].score)

\* C5 (amended): the two candidates that were last in the input order are not
\* left inverted: if the last one dominates the one before it, its score is
\* not lower.  For a pool of two that is the whole output.
C5_LastPairRepaired ==
    (Calibrated /\ Len(results) >= 2) =>
        LET n == Len(pre)
            a == ById(results, pre[n - 1].resume_id)
            b == ById(results, pre[n].resume_id)
        IN  ~(Dominates(b, a) /\ b.score < a.score)

\* the last candidate of the input dominated the one before it and the pass
\* exchanged their scores
C5_Witness ==
    /\ Calibrated /\ calls = 1 /\ Len(results) >= 2
    /\ LET n == Len(pre)
           a == ById(results, pre[n - 1].resume_id)
           b == ById(results, pre[n].resume_id)
       IN  Dominates(b, a) /\ b.score > a.score

\* C6: a pool of one candidate keeps its score; raw_score is that score and
\* comparative_rank is "Only Candidate".
C6_SingleUnchanged ==
    (Calibrated /\ Len(results) = 1) =>
        /\ Len(pre) = 1
        /\ results[1].score = pre[1].score
        /\ results[1].raw_score = pre[1].score
        /\ results[1].comparative_rank = "Only Candidate"

\* a single candidate whose score, 100, is outside the calibrated range
C6_Witness ==
    /\ Calibrated /\ calls = 1 /\ Len(results) = 1
    /\ results[1].score = 100
    /\ results[1].comparative_rank = "Only Candidate"

\* C7 (as stated): a second calibrate_scores call on the returned list leaves
\* every raw_score at the value it had after the first call.
C7_RerunKeepsRawScore ==
    (Calibrated /\ calls = 2 /\ Len(results) >= 2) =>
        \A i \in DOMAIN pre :
            ById(results, pre[i].resume_id).raw_score = pre[i].raw_score

\* the evaluator-produced fields of an entry, recommendation apart
EvaluatorFields(r) ==
    <<r.resume_id, r.filename, r.breakdown, r.matched_skills,
      r.missing_skills, r.bonus_skills, r.insights.tier,
      r.insights.reasoning, r.insights.key_strengths, r.insights.gaps>>

\* rs and qs hold the same candidates, each exactly once
SameCandidates(rs, qs) ==
    /\ Len(rs) = Len(qs)
    /\ \A i \in DOMAIN qs :
          Cardinality({j \in DOMAIN rs :
                          rs[j].resume_id = qs[i].resume_id}) = 1

\* C8 (as stated): calibrate_scores rewrites only score; identity, breakdown,
\* skill lists and the evaluator's insights values, recommendation included,
\* are as before, and the pool holds the same candidates.
C8_OnlyScoreRewritten ==
    Calibrated =>
        /\ SameCandidates(results, pre)
        /\ \A i \in DOMAIN pre :
              LET r == ById(results, pre[i].resume_id)
              IN  /\ EvaluatorFields(r) = EvaluatorFields(pre[i])
                  /\ r.insights.recommendation =
                         pre[i].insights.recommendation

\* C8 (amended): as stated, except that insights.recommendation of a pool of
\* two or more is overwritten with the comparative recommendation.
C8_FrameExceptRecommendation ==
    Calibrated =>
        /\ SameCandidates(results, pre)
        /\ \A i \in DOMAIN pre :
              LET r == ById(results, pre[i].resume_id)
              IN  /\ EvaluatorFields(r) = EvaluatorFields(pre[i])
                  /\ (Len(pre) = 1 =>
                         r.insights.recommendation =
                             pre[i].insights.recommendation)

\* a consistency swap took place between candidates of different breakdowns,
\* and a recommendation was overwritten
C8_Witness ==
    /\ Calibrated /\ calls = 1 /\ Len(results) >= 2
    /\ IdsOf(results) # IdsOf(pre)
    /\ \E i \in DOMAIN pre :
          ById(results, pre[i].resume_id).insights.recommendation
              # pre[i].insights.recommendation

\* the one text per comparative label
PoolText(label) ==
    CASE label = "Top Candidate" -> "Strong Hire - Prioritise Interview"
      [] label = "Strong Candidate" -> "Hire - Schedule Interview"
      [] label = "Moderate Candidate" -> "Consider - Further Screening Needed"
      [] label = "Below Average" -> "Low Priority - Only if Pool is Thin"
      [] OTHER -> "Not Recommended"

\* C9 (as stated): in a pool of two or more every recommendation is the fixed
\* text of the entry's comparative label; the evaluator's text never survives.
C9_RecommendationByLabelAlone ==
    (Calibrated /\ Len(results) >= 2) =>
        \A i \in DOMAIN results :
            results[i].insights.recommendation =
                PoolText(results[i].comparative_rank)

\* C9 (amended): the recommendation is the fixed text of the comparative label
\* for Top, Strong, Below Average and Weak candidates; a Moderate Candidate
\* keeps the recommendation it carried into the call (the evaluator's), the
\* fixed text standing in only for an empty one.
C9_RecommendationBlend ==
    (Calibrated /\ Len(results) >= 2) =>
        \A i \in DOMAIN results :
            LET r == results[i]
                before == ById(pre, r.resume_id).insights.recommendation
            IN  /\ r.comparative_rank \in
                      {"Top Candidate", "Strong Candidate",
                       "Moderate Candidate", "Below Average",
                       "Weak Candidate"}
                /\ r.insights.recommendation =
                      IF r.comparative_rank = "Moderate Candidate"
                         /\ before # ""
                      THEN before
                      ELSE PoolText(r.comparative_rank)

\* a Moderate Candidate that kept the evaluator's text next to a Top Candidate
\* whose text was replaced
C9_Witness ==
    /\ Calibrated /\ calls = 1 /\ Len(results) >= 3
    /\ \E i \in DOMAIN results :
          /\ results[i].comparative_rank = "Moderate Candidate"
          /\ results[i].insights.recommendation =
                 "Good Candidate - Proceed to Interview"
    /\ results[1].comparative_rank = "Top Candidate"
    /\ results[1].raw_score = 70
    /\ results[1].insights.recommendation =
           "Strong Hire - Prioritise Interview"

\* the sum of the adjustments as the claim states them
StatedDelta(a) ==
      (IF a.candidate_years >= 80 /\ a.skill_score >= 65 THEN 5 ELSE 0)
    + (IF a.seniority_score >= 70 THEN 3 ELSE 0)
    + (IF a.bonus_count >= 5 THEN 2 ELSE 0)
    - (IF 8 * a.n_critical_missing <= 20
          THEN 8 * a.n_critical_missing ELSE 20)
    - (IF a.role_score < 25 /\ a.candidate_years >= 20 THEN 10 ELSE 0)

AdjConditions(a) ==
    << a.candidate_years >= 80 /\ a.skill_score >= 65,
       a.seniority_score >= 70,
       a.bonus_count >= 5,
       a.n_critical_missing >= 1,
       a.role_score < 25 /\ a.candidate_years >= 20 >>

\* the note of the k-th adjustment
AdjNoteText(a, k) ==
    CASE k = 1 -> "Senior + strong skills boost +5"
      [] k = 2 -> "Strong leadership signals boost +3"
      [] k = 3 -> "Rich bonus skill portfolio +2"
      [] k = 4 -> "Missing " \o ToString(a.n_critical_missing)
                  \o " critical skill(s) = -"
                  \o ToString(IF 8 * a.n_critical_missing <= 20
                              THEN 8 * a.n_critical_missing ELSE 20)
                  \o " pts"
      [] OTHER -> "Domain mismatch penalty -10"

\* the adjustments that applied, in ascending order
RECURSIVE AppliedUpTo(_, _)
AppliedUpTo(a, k) ==
    IF k = 0 THEN <<>>
    ELSE AppliedUpTo(a, k - 1)
         \o (IF AdjConditions(a)[k] THEN <<k>> ELSE <<>>)

\* C13: apply_adjustments records exactly one note per adjustment applied, in
\* the order senior+skills, leadership, bonus portfolio, missing critical,
\* domain mismatch; the list is empty exactly when no condition held, and
\* then the final score is the base score.
C13_NotesTraceAdjustments ==
    pc = "adjusted" =>
        LET applied == AppliedUpTo(adj_in, 5)
            none == \A k \in 1 .. 5 : ~AdjConditions(adj_in)[k]
        IN  /\ Len(adj_out.notes) = Len(applied)
            /\ \A i \in DOMAIN applied :
                  adj_out.notes[i] = AdjNoteText(adj_in, applied[i])
            /\ (adj_out.notes = <<>>) <=> none
            /\ none => adj_out.score = adj_in.base_score

\* a leadership boost and a domain mismatch penalty, nothing else
C13_Witness ==
    /\ pc = "adjusted"
    /\ adj_out.notes = <<"Strong leadership signals boost +3",
                         "Domain mismatch penalty -10">>
    /\ adj_out.score = adj_in.base_score - 7


(***************************************************************************)
(* scorer.py: the component scorers.  Years are kept in tenths of a year   *)
(* (candidate_years is always a float with one decimal), required_years is *)
(* the job's integer min_experience, credits are kept in quarters.  Every  *)
(* int(<float expression>) of the source is the floor of the exact value   *)
(* minus one on the inputs listed in the *Low table next to it: there the  *)
(* double falls just below the exact value.                                *)
(***************************************************************************)

MAX_EXP_YEARS == 45

\* str.lower() on the skill names the model uses
lower(s) ==
    CASE s = "Python" -> "python"
      [] s = "Kafka" -> "kafka"
      [] s = "Django" -> "django"
      [] OTHER -> s

\* dict.get(key, default)
DictGet(d, key, default) == IF key \in DOMAIN d THEN d[key] ELSE default

RECURSIVE SumSeq(_)
SumSeq(s) == IF s = <<>> THEN 0 ELSE Head(s) + SumSeq(Tail(s))

TIER_WEIGHT(tier) ==
    CASE tier = "critical" -> 3
      [] tier = "important" -> 2
      [] tier = "optional" -> 1
      [] OTHER -> 2

\* MATCH_CREDIT in quarters: 1.0, 0.75, 0.50
MATCH_CREDIT_family_full(mtype) ==
    CASE mtype = "direct" -> 4
      [] mtype = "inferred" -> 3
      [] mtype = "family" -> 4
      [] OTHER -> 4

MATCH_CREDIT(mtype) ==
    CASE mtype = "direct" -> 4
      [] mtype = "inferred" -> 3
      [] mtype = "family" -> 2
      [] OTHER -> 4

\* (earned4, total) pairs, as earned4 * 100 + total, total <= 60, on which
\* the curve evaluated in doubles is one below the exact value
SkillCurveLow ==
    { 611, 1211, 1222, 2422, 4125, 4225, 4725, 5725,
      5825, 5925, 9425, 1833, 3633, 2444, 4844, 8250,
      8450, 9450, 11450, 11650, 11850, 18850, 1455, 2855,
      3055, 5655, 5855, 6055, 6255 }
\* the coverage curve of compute_skill_match_score: earned4 is four times
\* the earned weight, total the total weight (> 0)
coverage_curve_exact(earned4, total) ==
    IF earned4 >= 4 * total THEN 100
    ELSE IF 10 * earned4 >= 36 * total THEN (25 * earned4) \div total
    ELSE IF earned4 >= 3 * total THEN 18 + (20 * earned4) \div total
    ELSE IF 10 * earned4 >= 24 * total THEN 3 + (25 * earned4) \div total
    ELSE IF 10 * earned4 >= 16 * total THEN 3 + (25 * earned4) \div total
    ELSE (55 * earned4) \div (2 * total)

coverage_curve(earned4, total) ==
    coverage_curve_exact(earned4, total)
        - (IF earned4 * 100 + total \in SkillCurveLow THEN 1 ELSE 0)

\* matched is a list of entries [skill, suffix]: the source appends the
\* string skill + suffix and recovers the skill with split(" (")[0]
skill_key(entry) == lower(entry.skill)

compute_skill_match_score_no_neutral(matched, missing, match_types, skill_importance) ==
    LET tier_of(key) == DictGet(skill_importance, key, "important")
        w_matched == [i \in DOMAIN matched |->
                          TIER_WEIGHT(tier_of(skill_key(matched[i])))]
        e_matched == [i \in DOMAIN matched |->
                          w_matched[i] * MATCH_CREDIT(
                              DictGet(match_types, skill_key(matched[i]), "direct"))]
        w_missing == [i \in DOMAIN missing |->
                          TIER_WEIGHT(tier_of(lower(missing[i])))]
        total_weight == SumSeq(w_matched) + SumSeq(w_missing)
        earned4 == SumSeq(e_matched)
        is_critical(s) == tier_of(lower(s)) = "critical"
        is_important(s) == tier_of(lower(s)) = "important"
    IN  IF total_weight = 0
        THEN [score |-> 0, total_weight |-> 0, earned4 |-> 0,
              critical_missing |-> <<>>, important_missing |-> <<>>]
        ELSE [score |-> coverage_curve(earned4, total_weight),
              total_weight |-> total_weight, earned4 |-> earned4,
              critical_missing |-> SelectSeq(missing, is_critical),
              important_missing |-> SelectSeq(missing, is_important)]

compute_skill_match_score(matched, missing, match_types, skill_importance) ==
    LET tier_of(key) == DictGet(skill_importance, key, "important")
        w_matched == [i \in DOMAIN matched |->
                          TIER_WEIGHT(tier_of(skill_key(matched[i])))]
        e_matched == [i \in DOMAIN matched |->
                          w_matched[i] * MATCH_CREDIT(
                              DictGet(match_types, skill_key(matched[i]), "direct"))]
        w_missing == [i \in DOMAIN missing |->
                          TIER_WEIGHT(tier_of(lower(missing[i])))]
        total_weight == SumSeq(w_matched) + SumSeq(w_missing)
        earned4 == SumSeq(e_matched)
        is_critical(s) == tier_of(lower(s)) = "critical"
        is_important(s) == tier_of(lower(s)) = "important"
    IN  IF total_weight = 0
        THEN [score |-> 65, total_weight |-> 0, earned4 |-> 0,
              critical_missing |-> <<>>, important_missing |-> <<>>]
        ELSE [score |-> coverage_curve(earned4, total_weight),
              total_weight |-> total_weight, earned4 |-> earned4,
              critical_missing |-> SelectSeq(missing, is_critical),
              important_missing |-> SelectSeq(missing, is_important)]

\* (raw, seniority_score) pairs, as raw * 101 + seniority_score, on which
\* int(raw * 0.70 + seniority_score * 0.30) is one below the exact floor
ExpBlendLow ==
    { 132, 142, 152, 264, 274, 284, 294, 306,
      612, 642, 764, 774, 784, 794, 1112, 1214,
      1224, 1234, 1274, 1284, 1418, 1724, 1774, 1784,
      1928, 2224, 2326, 2336, 2346, 2376, 2428, 2438,
      2448, 2458, 2468, 2836, 2846, 2938, 2948, 2958,
      2968, 3336, 3346, 3356, 3438, 3448, 3458, 3846,
      3856, 3948, 4346, 4448, 4652, 4662, 4672, 4682,
      4692, 4742, 4856, 4866, 4876, 4886, 4896, 4906,
      4916, 4926, 4936, 4946, 5152, 5162, 5172, 5182,
      5192, 5202, 5356, 5366, 5376, 5386, 5396, 5406,
      5416, 5426, 5436, 5662, 5672, 5682, 5692, 5702,
      5866, 5876, 5886, 5896, 5906, 5916, 5926, 5936,
      6162, 6172, 6182, 6192, 6202, 6212, 6366, 6376,
      6386, 6396, 6406, 6416, 6426, 6672, 6682, 6692,
      6702, 6712, 6876, 6886, 6896, 6906, 6916, 7172,
      7182, 7192, 7202, 7212, 7376, 7386, 7396, 7406,
      7416, 7682, 7692, 7702, 7712, 7886, 7896, 7906,
      8182, 8192, 8202, 8386, 8396, 8590, 8600, 8692,
      8896, 9090, 9192, 9294, 9304, 9314, 9324, 9334,
      9344, 9354, 9364, 9374, 9384, 9702, 9712, 9722,
      9732, 9742, 9752, 9762, 9772, 9782, 9792, 9804,
      9814, 9824, 9834, 9844, 9854, 9864, 9874, 9884,
      9894 }
\* (candidate_years, required_years) pairs, as tenths * 100 + required_years,
\* required_years in 1..12, on which int(excess * 30) is one below the exact
\* floor and the exact floor is at most 30
ExcessBonusLow ==
    { 1201, 1401, 1901, 2402, 2802, 3802, 3303, 3403,
      3803, 4103, 4303, 4603, 5103, 5603, 5803, 4804,
      5604, 7604, 6606, 6806, 7606, 8206, 8606, 9206,
      10206, 11206, 11606, 9107, 11207, 12607, 9608, 11208,
      15208, 9609, 10209, 11109, 11709, 12609, 13209, 16209,
      17409, 17709, 12111, 13211, 20911, 13212, 13612, 15212,
      16412, 17212, 18412, 20412, 22412, 23212 }
experience_raw_met_from_60(candidate_years, required_years) ==
    IF required_years <= 0
    THEN IF candidate_years >= 120 THEN 100
         ELSE IF candidate_years >= 90 THEN 95
         ELSE IF candidate_years >= 70 THEN 88
         ELSE IF candidate_years >= 50 THEN 78
         ELSE IF candidate_years >= 30 THEN 65
         ELSE IF candidate_years >= 10 THEN 50
         ELSE 30
    ELSE IF candidate_years >= 10 * required_years
    THEN Min(60 + Min((3 * (candidate_years - 10 * required_years))
                          \div Max(required_years, 1), 30), 100)
    ELSE Max((68 * candidate_years) \div (10 * required_years), 5)

experience_raw(candidate_years, required_years) ==
    IF required_years <= 0
    THEN IF candidate_years >= 120 THEN 100
         ELSE IF candidate_years >= 90 THEN 95
         ELSE IF candidate_years >= 70 THEN 88
         ELSE IF candidate_years >= 50 THEN 78
         ELSE IF candidate_years >= 30 THEN 65
         ELSE IF candidate_years >= 10 THEN 50
         ELSE 30
    ELSE IF candidate_years >= 10 * required_years
    THEN LET excess30 == (3 * (candidate_years - 10 * required_years))
                              \div Max(required_years, 1)
                          - (IF candidate_years * 100 + required_years
                                    \in ExcessBonusLow THEN 1 ELSE 0)
             bonus == Min(excess30, 30)
         IN  Min(70 + bonus, 100)
    ELSE Max((68 * candidate_years) \div (10 * required_years), 5)

compute_experience_score(candidate_years, required_years, seniority_score) ==
    LET raw == experience_raw(candidate_years, required_years)
        blended == (7 * raw + 3 * seniority_score) \div 10
                     - (IF raw * 101 + seniority_score \in ExpBlendLow
                        THEN 1 ELSE 0)
    IN  Min(Max(blended, 0), 100)

\* len(SENIORITY_SIGNALS)
NumSenioritySignals == 44

\* hits is the number of SENIORITY_SIGNALS found in the text
compute_seniority_score(hits, candidate_years) ==
    LET base == Min(7 * hits, 70)
        yr_bonus == IF candidate_years >= 120 THEN 30
                    ELSE IF candidate_years >= 90 THEN 25
                    ELSE IF candidate_years >= 70 THEN 20
                    ELSE IF candidate_years >= 50 THEN 12
                    ELSE IF candidate_years >= 30 THEN 6
                    ELSE 0
    IN  Min(base + yr_bonus, 100)

RoleTypes == <<"backend", "frontend", "fullstack", "devops", "data", "ml">>

\* len(ROLE_KEYWORDS[role_type])
NumRoleSignals(role_type) ==
    CASE role_type = "backend" -> 9
      [] role_type = "frontend" -> 10
      [] role_type = "fullstack" -> 8
      [] role_type = "devops" -> 10
      [] role_type = "data" -> 8
      [] role_type = "ml" -> 9
      [] OTHER -> 0

\* hits: role signals found in the text; kw_hits of n_keywords keywords found
compute_role_alignment_score(hits, kw_hits, n_keywords, role_type) ==
    IF NumRoleSignals(role_type) = 0 THEN 60
    ELSE LET base == Min((100 * hits) \div NumRoleSignals(role_type), 100)
             kw_bonus == (35 * kw_hits) \div Max(n_keywords, 1)
         IN  Min(base + kw_bonus, 100)

\* len(signals) of compute_projects_score
NumProjectSignals == 30

compute_projects_score(hits) == Min((100 * hits) \div NumProjectSignals, 100)

\* the highest degree family the text names
EducationLevels == {"doctorate", "master", "bachelor", "certificate", "none"}

compute_education_score(level) ==
    CASE level = "doctorate" -> 100
      [] level = "master" -> 90
      [] level = "bachelor" -> 75
      [] level = "certificate" -> 65
      [] OTHER -> 40

\* the component score tuples <<skill, exp, proj, role, edu>> on which the
\* weighted sum evaluated in doubles is just below its exact, integer, value,
\* among those with proj in {0, 43, 100} and role in {0, 55, 100} and those
\* with skill 65 and exp 21
BaseLow ==
    { <<2, 18, 0, 0, 40>>, <<3, 57, 0, 0, 40>>, <<3, 57, 0, 0, 100>>,
      <<3, 57, 0, 55, 90>>, <<3, 57, 0, 100, 40>>, <<3, 57, 43, 0, 65>>,
      <<3, 62, 0, 0, 90>>, <<3, 62, 0, 55, 40>>, <<3, 62, 0, 55, 100>>,
      <<3, 67, 0, 0, 40>>, <<3, 67, 0, 0, 100>>, <<3, 67, 0, 55, 90>>,
      <<3, 72, 0, 0, 90>>, <<3, 72, 0, 55, 40>>, <<3, 77, 0, 0, 40>>,
      <<3, 77, 0, 0, 100>>, <<3, 82, 0, 0, 90>>, <<3, 87, 0, 0, 40>>,
      <<3, 87, 0, 0, 100>>, <<3, 97, 0, 0, 40>>, <<4, 31, 0, 0, 90>>,
      <<4, 36, 0, 0, 40>>, <<4, 96, 0, 0, 40>>, <<8, 57, 0, 0, 90>>,
      <<8, 57, 0, 55, 40>>, <<8, 57, 0, 55, 100>>, <<8, 62, 0, 0, 40>>,
      <<8, 62, 0, 0, 100>>, <<8, 62, 0, 55, 90>>, <<8, 67, 0, 0, 90>>,
      <<8, 67, 0, 55, 40>>, <<8, 72, 0, 0, 40>>, <<8, 72, 0, 0, 100>>,
      <<8, 77, 0, 0, 90>>, <<8, 82, 0, 0, 40>>, <<8, 82, 0, 0, 100>>,
      <<8, 92, 0, 0, 40>>, <<9, 31, 0, 0, 40>>, <<13, 57, 0, 0, 40>>,
      <<13, 57, 0, 0, 100>>, <<13, 57, 0, 55, 90>>, <<13, 62, 0, 0, 90>>,
      <<13, 62, 0, 55, 40>>, <<13, 67, 0, 0, 40>>, <<13, 67, 0, 0, 100>>,
      <<13, 72, 0, 0, 90>>, <<13, 77, 0, 0, 40>>, <<13, 77, 0, 0, 100>>,
      <<13, 87, 0, 0, 40>>, <<18, 2, 0, 0, 40>>, <<18, 57, 0, 0, 90>>,
      <<18, 57, 0, 55, 40>>, <<18, 62, 0, 0, 40>>, <<18, 62, 0, 0, 100>>,
      <<18, 67, 0, 0, 90>>, <<18, 72, 0, 0, 40>>, <<18, 72, 0, 0, 100>>,
      <<18, 82, 0, 0, 40>>, <<23, 57, 0, 0, 40>>, <<23, 57, 0, 0, 100>>,
      <<23, 62, 0, 0, 90>>, <<23, 67, 0, 0, 40>>, <<23, 67, 0, 0, 100>>,
      <<23, 77, 0, 0, 40>>, <<31, 4, 0, 0, 90>>, <<31, 9, 0, 0, 40>>,
      <<36, 4, 0, 0, 40>>, <<57, 3, 0, 0, 40>>, <<57, 3, 0, 0, 100>>,
      <<57, 3, 0, 55, 90>>, <<57, 3, 0, 100, 40>>, <<57, 3, 43, 0, 65>>,
      <<57, 8, 0, 0, 90>>, <<57, 8, 0, 55, 40>>, <<57, 8, 0, 55, 100>>,
      <<57, 13, 0, 0, 40>>, <<57, 13, 0, 0, 100>>, <<57, 13, 0, 55, 90>>,
      <<57, 18, 0, 0, 90>>, <<57, 18, 0, 55, 40>>, <<57, 23, 0, 0, 40>>,
      <<57, 23, 0, 0, 100>>, <<62, 3, 0, 0, 90>>, <<62, 3, 0, 55, 40>>,
      <<62, 3, 0, 55, 100>>, <<62, 8, 0, 0, 40>>, <<62, 8, 0, 0, 100>>,
      <<62, 8, 0, 55, 90>>, <<62, 13, 0, 0, 90>>, <<62, 13, 0, 55, 40>>,
      <<62, 18, 0, 0, 40>>, <<62, 18, 0, 0, 100>>, <<62, 23, 0, 0, 90>>,
      <<67, 3, 0, 0, 40>>, <<67, 3, 0, 0, 100>>, <<67, 3, 0, 55, 90>>,
      <<67, 8, 0, 0, 90>>, <<67, 8, 0, 55, 40>>, <<67, 13, 0, 0, 40>>,
      <<67, 13, 0, 0, 100>>, <<67, 18, 0, 0, 90>>, <<67, 23, 0, 0, 40>>,
      <<67, 23, 0, 0, 100>>, <<72, 3, 0, 0, 90>>, <<72, 3, 0, 55, 40>>,
      <<72, 8, 0, 0, 40>>, <<72, 8, 0, 0, 100>>, <<72, 13, 0, 0, 90>>,
      <<72, 18, 0, 0, 40>>, <<72, 18, 0, 0, 100>>, <<77, 3, 0, 0, 40>>,
      <<77, 3, 0, 0, 100>>, <<77, 8, 0, 0, 90>>, <<77, 13, 0, 0, 40>>,
      <<77, 13, 0, 0, 100>>, <<77, 23, 0, 0, 40>>, <<82, 3, 0, 0, 90>>,
      <<82, 8, 0, 0, 40>>, <<82, 8, 0, 0, 100>>, <<82, 18, 0, 0, 40>>,
      <<87, 3, 0, 0, 40>>, <<87, 3, 0, 0, 100>>, <<87, 13, 0, 0, 40>>,
      <<92, 8, 0, 0, 40>>, <<96, 4, 0, 0, 40>>, <<97, 3, 0, 0, 40>> }
weighted_sum_floor(skill_score, exp_score, proj_score, role_score, edu_score) ==
    (30 * skill_score + 30 * exp_score + 25 * proj_score
        + 10 * role_score + 5 * edu_score) \div 100
      - (IF <<skill_score, exp_score, proj_score, role_score, edu_score>>
                \in BaseLow THEN 1 ELSE 0)

base_score_rounded(skill_score, exp_score, proj_score, role_score, edu_score) ==
    Max(0, Min(100, (30 * skill_score + 30 * exp_score + 25 * proj_score
                       + 10 * role_score + 5 * edu_score + 50) \div 100))

\* Phase 11 of score_resume
base_score(skill_score, exp_score, proj_score, role_score, edu_score) ==
    Max(0, Min(100, weighted_sum_floor(skill_score, exp_score, proj_score,
                                       role_score, edu_score)))

\* round(x, 1) of x = months / 12, in tenths: ties (x.25, x.75) are exact in
\* binary and go to the even tenth
round_months_to_tenths(months) ==
    LET q == (10 * months) \div 12
        r == (10 * months) % 12
    IN  IF 2 * r > 12 \/ (2 * r = 12 /\ q % 2 = 1) THEN q + 1 ELSE q

RECURSIVE SeqMin(_)
SeqMin(s) == IF Len(s) = 1 THEN s[1] ELSE Min(Head(s), SeqMin(Tail(s)))
RECURSIVE SeqMax(_)
SeqMax(s) == IF Len(s) = 1 THEN s[1] ELSE Max(Head(s), SeqMax(Tail(s)))

extract_years_unclamped(periods, found) ==
    IF periods # <<>>
    THEN round_months_to_tenths(
             SeqMax([i \in DOMAIN periods |-> periods[i][2]])
               - SeqMin([i \in DOMAIN periods |-> periods[i][1]]))
    ELSE IF found # <<>> THEN SeqMax(found)
    ELSE 0

\* The numeric end of extract_years_of_experience.  periods: the valid
\* intervals <<sa, ea>> in month indices (ea > sa), in text order; found:
\* the numbers of the explicit statements, in tenths of a year.  Returns
\* tenths of a year.
extract_years_of_experience(periods, found) ==
    IF periods # <<>>
    THEN LET earliest == SeqMin([i \in DOMAIN periods |-> periods[i][1]])
             latest == SeqMax([i \in DOMAIN periods |-> periods[i][2]])
             years == round_months_to_tenths(latest - earliest)
         IN  Min(Max(years, 0), 10 * MAX_EXP_YEARS)
    ELSE IF found # <<>>
    THEN LET val == SeqMax(found)
         IN  IF 0 < val /\ val <= 10 * MAX_EXP_YEARS THEN val ELSE 0
    ELSE 0

(***************************************************************************)
(* scorer.py: match_skills' result lists and score_resume's numeric        *)
(* phases, on the signals a resume and a job carry.                        *)
(***************************************************************************)

match_suffix(state) ==
    CASE state = "inferred" -> " (inferred)"
      [] state = "family" -> " (equivalent)"
      [] OTHER -> ""

match_lists_family_in_both(required_skills, state) ==
    LET idx == [i \in DOMAIN required_skills |-> i]
        is_matched(i) == state[i] # "missing"
        is_missing(i) == state[i] \in {"missing", "family"}
        m_idx == SelectSeq(idx, is_matched)
        x_idx == SelectSeq(idx, is_missing)
    IN  [matched |-> [k \in DOMAIN m_idx |->
                         [skill |-> required_skills[m_idx[k]],
                          suffix |-> match_suffix(state[m_idx[k]])]],
         missing |-> [k \in DOMAIN x_idx |-> required_skills[x_idx[k]]],
         match_types |->
             [key \in {lower(required_skills[m_idx[k]]) : k \in DOMAIN m_idx} |->
                 state[CHOOSE i \in DOMAIN required_skills :
                          is_matched(i) /\ lower(required_skills[i]) = key]]]

\* The loop of match_skills over the required list: state[i] is the branch
\* entry i takes ("direct", "inferred", "family" or "missing").
match_lists(required_skills, state) ==
    LET idx == [i \in DOMAIN required_skills |-> i]
        is_matched(i) == state[i] # "missing"
        is_missing(i) == state[i] = "missing"
        m_idx == SelectSeq(idx, is_matched)
        x_idx == SelectSeq(idx, is_missing)
    IN  [matched |-> [k \in DOMAIN m_idx |->
                         [skill |-> required_skills[m_idx[k]],
                          suffix |-> match_suffix(state[m_idx[k]])]],
         missing |-> [k \in DOMAIN x_idx |-> required_skills[x_idx[k]]],
         match_types |->
             [key \in {lower(required_skills[m_idx[k]]) : k \in DOMAIN m_idx} |->
                 LET i == CHOOSE i \in DOMAIN required_skills :
                              is_matched(i) /\ lower(required_skills[i]) = key
                                /\ \A j \in DOMAIN required_skills :
                                      (is_matched(j) /\ lower(required_skills[j]) = key)
                                          => j <= i
                 IN  state[i]]]

MaxSkillList == 12
MaxSpanMonths == 600
MaxRequiredYears == 6
MaxKeywords == 3

SkillName(i) == "s" \o ToString(i)

MatchStates == {"missing", "family", "inferred", "direct"}
Tiers == {"critical", "important", "optional"}

\* A job's required list s1..sn with its tiers and a resume's match states:
\* the first c skills are critical and the other ones rest_tier, the first d
\* skills are matched in state fill and the other ones missing; the last
\* skill, sn, has its own tier and state.
skill_list(sig) == [i \in 1..sig.n |-> SkillName(i)]

skill_tiers(sig) ==
    [key \in {SkillName(i) : i \in 1..sig.n} |->
        IF key = SkillName(sig.n) THEN sig.focal_tier
        ELSE IF \E i \in 1..sig.c : key = SkillName(i) THEN "critical"
        ELSE sig.rest_tier]

skill_states(sig) ==
    [i \in 1..sig.n |->
        IF i = sig.n THEN sig.focal_state
        ELSE IF i <= sig.d THEN sig.fill
        ELSE "missing"]

\* Phases 6, 10, 11 and 12 of score_resume
score_components(sig) ==
    LET candidate_years == extract_years_of_experience(sig.periods, sig.found)
        m == match_lists(skill_list(sig), skill_states(sig))
        skill == compute_skill_match_score(m.matched, m.missing, m.match_types,
                                           skill_tiers(sig))
        seniority_sc == compute_seniority_score(sig.sen_hits, candidate_years)
        exp_score == compute_experience_score(candidate_years,
                                              sig.required_years, seniority_sc)
        role_score == compute_role_alignment_score(sig.role_hits, sig.kw_hits,
                                                   sig.n_keywords, sig.role_type)
        proj_score == compute_projects_score(sig.proj_hits)
        edu_score == compute_education_score(sig.education)
        base == base_score(skill.score, exp_score, proj_score, role_score,
                           edu_score)
        adj == apply_adjustments(
                   [base_score |-> base, skill_score |-> skill.score,
                    seniority_score |-> seniority_sc, role_score |-> role_score,
                    n_critical_missing |-> Len(skill.critical_missing),
                    candidate_years |-> candidate_years,
                    bonus_count |-> sig.bonus_count])
    IN  [matched |-> m.matched, missing |-> m.missing,
         skill_score |-> skill.score, total_weight |-> skill.total_weight,
         critical_missing |-> skill.critical_missing,
         candidate_years |-> candidate_years,
         seniority_sc |-> seniority_sc, exp_score |-> exp_score,
         role_score |-> role_score, proj_score |-> proj_score,
         edu_score |-> edu_score, base_score |-> base,
         final_score |-> adj.score, adj_notes |-> adj.notes]

(***************************************************************************)
(* SpecScore: score_resume called once on the signals of one resume and    *)
(* one job.                                                                *)
(***************************************************************************)

WithFields(sig, upd) ==
    [k \in DOMAIN sig \cup DOMAIN upd |-> IF k \in DOMAIN upd THEN upd[k] ELSE sig[k]]

\* an empty resume against a job that asks for nothing
DefaultSig ==
    [n |-> 0, c |-> 0, d |-> 0, fill |-> "direct", rest_tier |-> "important",
     focal_tier |-> "important", focal_state |-> "missing",
     periods |-> <<>>, found |-> <<>>, required_years |-> 0, sen_hits |-> 0,
     role_type |-> "backend", role_hits |-> 0, kw_hits |-> 0, n_keywords |-> 0,
     proj_hits |-> 0, education |-> "none", bonus_count |-> 0]

SkillSigs ==
    {[n |-> 0, c |-> 0, d |-> 0, fill |-> "direct", rest_tier |-> "important",
      focal_tier |-> "important", focal_state |-> "missing"]}
    \cup
    {[n |-> n, c |-> c, d |-> d, fill |-> fill, rest_tier |-> rest_tier,
      focal_tier |-> focal_tier, focal_state |-> focal_state] :
        n \in 1..MaxSkillList, c \in 0..MaxSkillList, d \in 0..MaxSkillList,
        fill \in {"direct", "inferred", "family"},
        rest_tier \in {"important", "optional"},
        focal_tier \in Tiers, focal_state \in MatchStates}

\* month index of January 1970, the earliest start the extractor accepts
FirstMonth == 1970 * 12 + 1

\* one date range of the given length, or none and some explicit statements
\* (numbers in tenths of a year)
ExperienceSigs ==
    {[periods |-> << <<FirstMonth, FirstMonth + m>> >>, found |-> <<>>] :
        m \in 1..MaxSpanMonths}
    \cup
    {[periods |-> <<>>, found |-> f] :
        f \in {<<>>, <<0>>, <<5>>, <<450>>, <<451>>, <<30, 990>>, <<30, 25>>}}

InitScore ==
    /\ pc = "score"
    /\ pos = 0
    /\ results = <<>>
    /\ pre = <<>>
    /\ calls = 0
    /\ adj_in = None
    /\ adj_out = None
    /\ args = None
    /\ ret = None

Scored(sig) ==
    /\ pc = "score"
    /\ args' = sig
    /\ ret' = score_components(sig)
    /\ pc' = "scored"
    /\ UNCHANGED <<pos, results, pre, calls, adj_in, adj_out>>

\* any required list, tiers and match states; an empty resume otherwise
ScoreSkills ==
    /\ pc = "score"
    /\ \E s \in SkillSigs :
        /\ s.c < Max(s.n, 1) /\ s.d < Max(s.n, 1)
        /\ Scored(WithFields(DefaultSig, s))

\* any experience and minimum years; no required skills
ScoreExperience ==
    /\ pc = "score"
    /\ \E e \in ExperienceSigs, ry \in -1..MaxRequiredYears,
       hits \in {0, 4, 10, NumSenioritySignals} :
        Scored(WithFields(DefaultSig,
                          WithFields(e, [required_years |-> ry, sen_hits |-> hits])))

\* any count of role, keyword, project and education signals
ScoreVocabulary ==
    /\ pc = "score"
    /\ \/ \E i \in DOMAIN RoleTypes, n_keywords \in 0..MaxKeywords :
         \E hits \in 0..NumRoleSignals(RoleTypes[i]), kw_hits \in 0..n_keywords :
            Scored(WithFields(DefaultSig,
                     [role_type |-> RoleTypes[i], role_hits |-> hits,
                      kw_hits |-> kw_hits, n_keywords |-> n_keywords]))
    \/ \E hits \in 0..NumProjectSignals, level \in EducationLevels,
          bonus \in {0, 5} :
            Scored(WithFields(DefaultSig,
                     [proj_hits |-> hits, education |-> level,
                      bonus_count |-> bonus]))

\* a two-skill job and a resume with some of everything
ScoreMixed ==
    /\ pc = "score"
    /\ \E c \in 0..1, d \in 0..1, focal_tier \in Tiers, focal_state \in MatchStates,
       m \in {24, 96, 150}, ry \in {0, 5}, sen_hits \in {0, 10},
       proj_hits \in {0, 13, 30}, role_hits \in {0, 5, 9},
       level \in EducationLevels, bonus \in {0, 5} :
        Scored([n |-> 2, c |-> c, d |-> d, fill |-> "direct",
                rest_tier |-> "important", focal_tier |-> focal_tier,
                focal_state |-> focal_state,
                periods |-> << <<FirstMonth, FirstMonth + m>> >>, found |-> <<>>,
                required_years |-> ry, sen_hits |-> sen_hits,
                role_type |-> "backend", role_hits |-> role_hits, kw_hits |-> 0,
                n_keywords |-> 2, proj_hits |-> proj_hits, education |-> level,
                bonus_count |-> bonus])

NextScore == ScoreSkills \/ ScoreExperience \/ ScoreVocabulary \/ ScoreMixed

SpecScore == InitScore /\ [][NextScore]_vars

\* the weighted sum of the component scores of ret, times 100
WeightedSum100 ==
    30 * ret.skill_score + 30 * ret.exp_score + 25 * ret.proj_score
        + 10 * ret.role_score + 5 * ret.edu_score

\* C11 as stated: the base score is the weighted sum of the five component
\* scores rounded to the nearest integer, clamped to [0,100].
C11_BaseRoundedToNearest ==
    pc = "scored" =>
        ret.base_score = Max(0, Min(100, (WeightedSum100 + 50) \div 100))

\* C11 as amended: the base score is the weighted sum truncated, not rounded:
\* the floor of the exact sum, or one below it where the exact sum is a whole
\* number that the double-precision sum falls just short of; in [0,100].
C11_BaseTruncated ==
    pc = "scored" =>
        /\ ret.base_score \in 0..100
        /\ \/ ret.base_score = WeightedSum100 \div 100
           \/ /\ WeightedSum100 % 100 = 0
              /\ ret.base_score = WeightedSum100 \div 100 - 1

\* a base score that rounding would have made one higher
C11_Witness ==
    /\ pc = "scored"
    /\ WeightedSum100 % 100 >= 50
    /\ ret.base_score = WeightedSum100 \div 100
    /\ ret.base_score < 100

\* C12: every component score and the final score lie in [0,100] and the
\* experience years in [0,45], for every coverage ratio, every years and
\* minimum-years combination and every count of vocabulary hits.
C12_ScoresInRange ==
    pc = "scored" =>
        /\ ret.skill_score \in 0..100
        /\ ret.exp_score \in 0..100
        /\ ret.role_score \in 0..100
        /\ ret.proj_score \in 0..100
        /\ ret.edu_score \in 0..100
        /\ ret.seniority_sc \in 0..100
        /\ ret.final_score \in 0..100
        /\ ret.candidate_years \in 0..(10 * MAX_EXP_YEARS)

\* a date range longer than 45 years against a negative minimum
C12_Witness ==
    /\ pc = "scored"
    /\ args.required_years < 0
    /\ args.periods # <<>>
    /\ args.periods[1][2] - args.periods[1][1] > 12 * MAX_EXP_YEARS
    /\ ret.candidate_years = 10 * MAX_EXP_YEARS
    /\ ret.exp_score = 100

(***************************************************************************)
(* SpecUpgrade: score_resume on a resume and a job, then on the same job   *)
(* and a resume that differs in one required skill's match state and/or    *)
(* the length of its date range.  pre keeps the first call.                *)
(***************************************************************************)

StateRank(state) ==
    CASE state = "direct" -> 3
      [] state = "inferred" -> 2
      [] state = "family" -> 1
      [] OTHER -> 0

SpanOf(sig) == sig.periods[1][2] - sig.periods[1][1]

\* either any list shape with a two-year range, or a one-skill list with any
\* range, minimum years and seniority cues
UpgradeSigs ==
    {WithFields(DefaultSig,
         WithFields(s, [periods |-> << <<FirstMonth, FirstMonth + 24>> >>,
                        required_years |-> 3])) :
        s \in {t \in SkillSigs : /\ t.n >= 1 /\ t.c < t.n /\ t.d < t.n
                                 /\ t.rest_tier = "optional"
                                 /\ t.fill # "family"}}
    \cup
    {WithFields(DefaultSig,
         [n |-> 1, focal_tier |-> "critical", focal_state |-> fs,
          periods |-> << <<FirstMonth, FirstMonth + m>> >>,
          required_years |-> ry, sen_hits |-> hits]) :
        fs \in {"family"}, m \in 1..MaxSpanMonths,
        ry \in -1..MaxRequiredYears, hits \in {0, 10}}

InitUpgrade ==
    /\ pc = "scored"
    /\ pos = 0
    /\ results = <<>>
    /\ pre = <<>>
    /\ calls = 0
    /\ adj_in = None
    /\ adj_out = None
    /\ args \in UpgradeSigs
    /\ ret = score_components(args)

Rescore(sig) ==
    /\ pre' = [args |-> args, ret |-> ret]
    /\ args' = sig
    /\ ret' = score_components(sig)
    /\ pc' = "rescored"
    /\ UNCHANGED <<pos, results, calls, adj_in, adj_out>>

\* the focal skill is found in a better state
UpgradeSkill ==
    /\ pc = "scored"
    /\ \E fs \in MatchStates :
          /\ StateRank(fs) > StateRank(args.focal_state)
          /\ Rescore([args EXCEPT !.focal_state = fs])

\* the date range is longer
UpgradeYears ==
    /\ pc = "scored"
    /\ \E m \in {1, 12, 60} :
          /\ SpanOf(args) + m <= MaxSpanMonths
          /\ Rescore([args EXCEPT
                        !.periods = << <<FirstMonth, FirstMonth + SpanOf(args) + m>> >>])

\* both at once
UpgradeBoth ==
    /\ pc = "scored"
    /\ \E fs \in MatchStates, m \in {60} :
          /\ StateRank(fs) > StateRank(args.focal_state)
          /\ SpanOf(args) + m <= MaxSpanMonths
          /\ Rescore([args EXCEPT
                        !.focal_state = fs,
                        !.periods = << <<FirstMonth, FirstMonth + SpanOf(args) + m>> >>])

NextUpgrade == UpgradeSkill \/ UpgradeYears \/ UpgradeBoth

SpecUpgrade == InitUpgrade /\ [][NextUpgrade]_vars

\* C14: a better match state of a required skill and/or more experience
\* years, for the same job and seniority cues, never lowers the skill score,
\* the experience score or the base score.
C14_UpgradeNeverLowers ==
    pc = "rescored" =>
        /\ ret.skill_score >= pre.ret.skill_score
        /\ ret.exp_score >= pre.ret.exp_score
        /\ ret.base_score >= pre.ret.base_score

\* the requirement of 5 years is met where it was not, and a skill known by
\* a family member only is found itself: all three scores rise
C14_Witness ==
    /\ pc = "rescored"
    /\ pre.args.focal_state = "family" /\ args.focal_state = "direct"
    /\ args.required_years = 5
    /\ pre.ret.candidate_years < 50 /\ ret.candidate_years >= 50
    /\ ret.skill_score > pre.ret.skill_score
    /\ ret.exp_score > pre.ret.exp_score
    /\ ret.base_score > pre.ret.base_score

\* the two calls differ in nothing but the focal skill, family before and
\* direct after
FamilyThenDirect ==
    /\ pc = "rescored"
    /\ pre.args.focal_state = "family"
    /\ args.focal_state = "direct"
    /\ args.periods = pre.args.periods

\* C15 as stated: direct instead of family, everything else equal, is always
\* a strictly higher skill score.
C15_FamilyStrictlyLower ==
    FamilyThenDirect => pre.ret.skill_score < ret.skill_score

\* C15 as amended: family instead of direct is never a higher skill score,
\* and a strictly lower one whenever the list's total weight is below 30.
C15_FamilyLowerBelowWeight30 ==
    FamilyThenDirect =>
        /\ pre.ret.skill_score <= ret.skill_score
        /\ ret.total_weight < 30 => pre.ret.skill_score < ret.skill_score

\* a list of total weight 29 on which the skill score moves by one point
C15_Witness ==
    /\ FamilyThenDirect
    /\ ret.total_weight = 29
    /\ ret.skill_score = pre.ret.skill_score + 1

(***************************************************************************)
(* scorer.py: the taxonomy, cut down to the skills the matching            *)
(* specifications use, and match_skills.  A normalized text is the set of  *)
(* the aliases that occur in it between word boundaries.                   *)
(***************************************************************************)

SKILL_SYNONYMS ==
    "python" :> <<"python", "py", "python3", "python 3", "python2", "cpython">>
    @@ "java" :> <<"java", "java 8", "java 11", "java 17", "java se",
                   "java ee", "core java">>
    @@ "django" :> <<"django", "django rest framework", "drf", "django rf",
                     "django orm", "django views", "django framework">>
    @@ "postgresql" :> <<"postgresql", "postgres", "postgre", "pg", "psql",
                         "postgressql", "postgresdb", "postgresql database">>
    @@ "docker" :> <<"docker", "dockerfile", "docker-compose", "docker compose",
                     "containerization", "containers", "docker swarm">>
    @@ "kubernetes" :> <<"kubernetes", "k8s", "kube", "kubectl", "helm",
                         "openshift">>

\* the taxonomy's canonical skills among them
ALL_CANONICAL == {"python", "java", "django", "postgresql", "docker", "kubernetes"}

\* the reverse map alias -> canonical, built once
AliasMap ==
    [alias \in UNION {{SKILL_SYNONYMS[c][i] : i \in DOMAIN SKILL_SYNONYMS[c]} :
                         c \in DOMAIN SKILL_SYNONYMS} |->
        CHOOSE c \in DOMAIN SKILL_SYNONYMS :
            \E i \in DOMAIN SKILL_SYNONYMS[c] : SKILL_SYNONYMS[c][i] = alias]

\* _ALIAS_TO_CANONICAL.get(alias, alias)
_ALIAS_TO_CANONICAL(alias) ==
    IF alias \in DOMAIN AliasMap THEN AliasMap[alias] ELSE alias

normalize_skill(skill) == _ALIAS_TO_CANONICAL(lower(skill))

get_all_aliases(skill) ==
    IF normalize_skill(skill) \in DOMAIN SKILL_SYNONYMS
    THEN SKILL_SYNONYMS[normalize_skill(skill)]
    ELSE <<lower(skill), normalize_skill(skill)>>

skill_present_in_text(skill, text_norm) ==
    \E i \in DOMAIN get_all_aliases(skill) :
        get_all_aliases(skill)[i] \in text_norm

\* in the order of the dict
TECH_FAMILIES ==
    << [name |-> "rdbms",
        members |-> <<"postgresql", "mysql", "mssql", "oracle", "mariadb",
                      "sqlite", "aurora">>],
       [name |-> "container",
        members |-> <<"docker", "podman", "lxc", "containerd">>],
       [name |-> "orchestration",
        members |-> <<"kubernetes", "openshift", "docker swarm", "nomad">>],
       [name |-> "backend_lang",
        members |-> <<"python", "java", "go", "node.js", "ruby", "php", "c#">>] >>

FamilyMembers(name) ==
    IF \E i \in DOMAIN TECH_FAMILIES : TECH_FAMILIES[i].name = name
    THEN (CHOOSE f \in {TECH_FAMILIES[i] : i \in DOMAIN TECH_FAMILIES} :
              f.name = name).members
    ELSE <<>>

\* the families a canonical skill is listed in
FamiliesOf(canonical) ==
    {i \in DOMAIN TECH_FAMILIES :
        \E j \in DOMAIN TECH_FAMILIES[i].members :
            _ALIAS_TO_CANONICAL(TECH_FAMILIES[i].members[j]) = canonical}

\* the reverse map: a later family overwrites an earlier one
_SKILL_TO_FAMILY(canonical) ==
    IF FamiliesOf(canonical) = {} THEN ""
    ELSE TECH_FAMILIES[CHOOSE i \in FamiliesOf(canonical) :
                          \A k \in FamiliesOf(canonical) : k <= i].name

get_family(skill) == _SKILL_TO_FAMILY(normalize_skill(skill))

family_member_present(skill, text_norm) ==
    IF get_family(skill) = "" THEN FALSE
    ELSE LET members == FamilyMembers(get_family(skill))
         IN  \E j \in DOMAIN members :
                /\ _ALIAS_TO_CANONICAL(members[j]) # normalize_skill(skill)
                /\ skill_present_in_text(_ALIAS_TO_CANONICAL(members[j]), text_norm)

ECOSYSTEM_CHAINS ==
    "django" :> <<"python", "rest api">>
    @@ "kubernetes" :> <<"docker">>

detected_canonicals(text_norm) ==
    {c \in ALL_CANONICAL : skill_present_in_text(c, text_norm)}

_get_inferred_skills(detected) ==
    UNION {{normalize_skill(ECOSYSTEM_CHAINS[s][i]) :
                i \in DOMAIN ECOSYSTEM_CHAINS[s]} :
           s \in detected \cap DOMAIN ECOSYSTEM_CHAINS}

\* the branch match_skills takes for one required skill
match_state(skill, text_norm, detected, implied) ==
    IF skill_present_in_text(skill, text_norm) THEN "direct"
    ELSE IF normalize_skill(skill) \in implied \/ normalize_skill(skill) \in detected
    THEN "inferred"
    ELSE IF family_member_present(skill, text_norm) THEN "family"
    ELSE "missing"

\* canonical.upper() if len(canonical) <= 3 else canonical.title()
skill_label(canonical) ==
    CASE canonical = "python" -> "Python"
      [] canonical = "java" -> "Java"
      [] canonical = "django" -> "Django"
      [] canonical = "postgresql" -> "Postgresql"
      [] canonical = "docker" -> "Docker"
      [] canonical = "kubernetes" -> "Kubernetes"
      [] OTHER -> canonical

\* order: the order in which this run iterates the set ALL_CANONICAL
match_skills(text_norm, required_skills, order) ==
    LET detected == detected_canonicals(text_norm)
        implied == _get_inferred_skills(detected)
        m == match_lists(required_skills,
                         [i \in DOMAIN required_skills |->
                             match_state(required_skills[i], text_norm,
                                         detected, implied)])
        req_canonical == {normalize_skill(required_skills[i]) :
                             i \in DOMAIN required_skills}
        is_bonus(c) == c \notin req_canonical /\ skill_present_in_text(c, text_norm)
        found == SelectSeq(order, is_bonus)
    IN  [matched |-> m.matched, missing |-> m.missing,
         bonus |-> [k \in DOMAIN found |-> skill_label(found[k])],
         match_types |-> m.match_types]

(***************************************************************************)
(* SpecMatch: match_skills called once on a resume text and a required     *)
(* list.                                                                   *)
(***************************************************************************)

MaxRequired == 3

\* the aliases a resume text may contain
TextAliases == {"python", "py", "django", "java", "docker", "podman", "k8s", "cobol"}

\* the names a job may list
RequiredNames == {"Python", "docker", "podman", "cobol"}

RequiredLists == UNION {[1..n -> RequiredNames] : n \in 0..MaxRequired}

\* two of the orders a set of strings can be iterated in
CanonicalOrders ==
    { <<"python", "java", "django", "postgresql", "docker", "kubernetes">>,
      <<"kubernetes", "docker", "postgresql", "django", "java", "python">> }

InitMatch ==
    /\ pc = "match"
    /\ pos = 0
    /\ results = <<>>
    /\ pre = <<>>
    /\ calls = 0
    /\ adj_in = None
    /\ adj_out = None
    /\ args \in [text_norm : SUBSET TextAliases, required_skills : RequiredLists]
    /\ ret = None

MatchSkills ==
    /\ pc = "match"
    /\ \E order \in CanonicalOrders :
          ret' = match_skills(args.text_norm, args.required_skills, order)
    /\ pc' = "matched"
    /\ UNCHANGED <<pos, results, pre, calls, adj_in, adj_out, args>>

NextMatch == MatchSkills

SpecMatch == InitMatch /\ [][NextMatch]_vars

MatchedSkills == [k \in DOMAIN ret.matched |-> ret.matched[k].skill]

Count(seq, x) == Cardinality({k \in DOMAIN seq : seq[k] = x})

Elems(seq) == {seq[k] : k \in DOMAIN seq}

\* C16: every entry of the required list is in exactly one of matched and
\* missing, each list in the required list's order, and match_types holds a
\* state for the matched skills and only for them.
C16_MatchedMissingPartition ==
    pc = "matched" =>
        LET in_matched(s) == s \in Elems(MatchedSkills)
            in_missing(s) == s \in Elems(ret.missing)
        IN  /\ Len(ret.matched) + Len(ret.missing) = Len(args.required_skills)
            /\ \A s \in Elems(args.required_skills) :
                  /\ in_matched(s) # in_missing(s)
                  /\ Count(MatchedSkills, s) + Count(ret.missing, s)
                        = Count(args.required_skills, s)
            /\ MatchedSkills = SelectSeq(args.required_skills, in_matched)
            /\ ret.missing = SelectSeq(args.required_skills, in_missing)
            /\ DOMAIN ret.match_types = {lower(s) : s \in Elems(MatchedSkills)}
            /\ \A key \in DOMAIN ret.match_types :
                  ret.match_types[key] \in {"direct", "inferred", "family"}
            /\ \A s \in Elems(ret.missing) : lower(s) \notin DOMAIN ret.match_types

\* a three-skill list with a direct, a missing and a family match, in order
C16_Witness ==
    /\ pc = "matched"
    /\ args.required_skills = <<"Python", "cobol", "podman">>
    /\ MatchedSkills = <<"Python", "podman">>
    /\ ret.missing = <<"cobol">>
    /\ ret.match_types["python"] = "direct"
    /\ ret.match_types["podman"] = "family"

\* the state match_skills gave to entry i of the required list
StateOfEntry(i) ==
    IF lower(args.required_skills[i]) \in DOMAIN ret.match_types
    THEN ret.match_types[lower(args.required_skills[i])]
    ELSE "missing"

\* another member of a family that lists the skill is present in the text
OtherFamilyMemberPresent(skill, text_norm) ==
    \E f \in FamiliesOf(normalize_skill(skill)) :
        \E j \in DOMAIN TECH_FAMILIES[f].members :
            /\ _ALIAS_TO_CANONICAL(TECH_FAMILIES[f].members[j]) # normalize_skill(skill)
            /\ skill_present_in_text(
                   _ALIAS_TO_CANONICAL(TECH_FAMILIES[f].members[j]), text_norm)

\* C17: the state of each required skill is the first applicable one of:
\* direct when an alias of it is in the text, inferred when a detected skill
\* implies it, family when another member of its family is in the text,
\* missing when none of the three holds.
C17_FirstApplicableRule ==
    pc = "matched" =>
        \A i \in DOMAIN args.required_skills :
            LET skill == args.required_skills[i]
                tn == args.text_norm
            IN  StateOfEntry(i) =
                    IF skill_present_in_text(skill, tn) THEN "direct"
                    ELSE IF normalize_skill(skill)
                              \in _get_inferred_skills(detected_canonicals(tn))
                    THEN "inferred"
                    ELSE IF OtherFamilyMemberPresent(skill, tn) THEN "family"
                    ELSE "missing"

(***************************************************************************)
(* scorer.py, Phase 1: detect_role_type and classify_job_skills; job.py:   *)
(* the recruiter's skill priorities.  The text detect_role_type searches   *)
(* is the set of the role signals that occur in it as substrings.          *)
(***************************************************************************)

\* in the order of the dict
ROLE_KEYWORDS ==
    << [role |-> "backend",
        signals |-> {"api", "server", "database", "microservices", "rest",
                     "backend", "server-side", "endpoint", "middleware"}],
       [role |-> "frontend",
        signals |-> {"ui", "css", "html", "react", "angular", "vue",
                     "frontend", "user interface", "ux", "responsive"}],
       [role |-> "fullstack",
        signals |-> {"full stack", "full-stack", "fullstack", "end to end",
                     "frontend", "backend", "api", "database"}],
       [role |-> "devops",
        signals |-> {"docker", "kubernetes", "ci/cd", "aws", "linux",
                     "terraform", "infrastructure", "deployment",
                     "pipeline", "monitoring"}],
       [role |-> "data",
        signals |-> {"python", "sql", "pandas", "analytics", "data pipeline",
                     "etl", "spark", "bigquery"}],
       [role |-> "ml",
        signals |-> {"machine learning", "deep learning", "nlp", "tensorflow",
                     "pytorch", "model", "training", "inference",
                     "transformer"}] >>

_CRITICAL_BACKEND ==
    {"python", "java", "go", "node.js", "c#", "ruby", "php", "django", "flask",
     "fastapi", "spring", "express", "asp.net", "rails", "rest api",
     "microservices", "postgresql", "mysql", "mongodb"}

_CRITICAL_FRONTEND ==
    {"react", "angular", "vue", "javascript", "typescript", "nextjs", "html", "css"}

_ROLE_CRITICAL(role_type) ==
    CASE role_type = "backend" -> _CRITICAL_BACKEND
      [] role_type = "frontend" -> _CRITICAL_FRONTEND
      [] role_type = "fullstack" -> _CRITICAL_BACKEND \cup _CRITICAL_FRONTEND
      [] role_type = "data" ->
            {"python", "sql", "pandas", "machine learning", "tensorflow",
             "pytorch", "scikit-learn", "spark"}
      [] role_type = "devops" ->
            {"docker", "kubernetes", "aws", "azure", "gcp", "ci/cd",
             "terraform", "linux"}
      [] role_type = "ml" ->
            {"python", "tensorflow", "pytorch", "scikit-learn",
             "machine learning", "pandas", "numpy"}
      [] OTHER -> _CRITICAL_BACKEND

\* the roles, by index in ROLE_KEYWORDS, with a signal in the text
RolesHit(text) ==
    {i \in DOMAIN ROLE_KEYWORDS : ROLE_KEYWORDS[i].signals \cap text # {}}

detect_role_type_last_hit(text) ==
    IF RolesHit(text) = {} THEN "backend"
    ELSE ROLE_KEYWORDS[CHOOSE i \in RolesHit(text) :
                          \A k \in RolesHit(text) : k <= i].role

detect_role_type(text) ==
    IF RolesHit(text) = {} THEN "backend"
    ELSE ROLE_KEYWORDS[CHOOSE i \in RolesHit(text) :
                          \A k \in RolesHit(text) : i <= k].role

\* the tier the loop of classify_job_skills computes for entry i (idx = i - 1)
tier_at(required_skills, role_type, i) ==
    LET n == Max(Len(required_skills), 1)
    IN  IF normalize_skill(required_skills[i]) \in _ROLE_CRITICAL(role_type)
        THEN "critical"
        ELSE IF 100 * (i - 1) <= 45 * n THEN "important"
        ELSE IF 100 * (i - 1) <= 75 * n THEN "important"
        ELSE "optional"

classify_job_skills_first_wins(required_skills, role_type) ==
    [key \in {lower(required_skills[i]) : i \in DOMAIN required_skills} |->
        tier_at(required_skills, role_type,
                CHOOSE i \in DOMAIN required_skills :
                    /\ lower(required_skills[i]) = key
                    /\ \A k \in DOMAIN required_skills :
                          lower(required_skills[k]) = key => i <= k)]

\* the dict is keyed by skill.lower(): a later entry overwrites an earlier one
classify_job_skills(required_skills, role_type) ==
    [key \in {lower(required_skills[i]) : i \in DOMAIN required_skills} |->
        tier_at(required_skills, role_type,
                CHOOSE i \in DOMAIN required_skills :
                    /\ lower(required_skills[i]) = key
                    /\ \A k \in DOMAIN required_skills :
                          lower(required_skills[k]) = key => k <= i)]

\* job.py, priorities in hundredths
priority_to_level(priority) ==
    IF priority >= 90 THEN "critical"
    ELSE IF priority >= 65 THEN "high"
    ELSE IF priority >= 40 THEN "medium"
    ELSE IF priority >= 20 THEN "low"
    ELSE "optional"

\* JobCreate.get_skill_priority_map
get_skill_priority_map(skill_priorities) ==
    [key \in {lower(skill_priorities[k].skill) : k \in DOMAIN skill_priorities} |->
        skill_priorities[CHOOSE k \in DOMAIN skill_priorities :
            /\ lower(skill_priorities[k].skill) = key
            /\ \A j \in DOMAIN skill_priorities :
                  lower(skill_priorities[j].skill) = key => j <= k].priority]

(***************************************************************************)
(* SpecJob: a job is created with its priorities, then ranked: the         *)
(* job_payload rank_resumes_for_job hands to score_resume, and Phase 1 of  *)
(* score_resume on it.                                                     *)
(***************************************************************************)

MaxJobSkills == 5

\* role signals a job title may contain
TitleSignals == {"api", "react", "ui", "sql"}

JobSkillNames == {"py", "docker", "cobol"}

\* the role signals that are substrings of a skill name
SignalsInName(name) == IF lower(name) = "docker" THEN {"docker"} ELSE {}

JobSkillLists == UNION {[1..n -> JobSkillNames] : n \in 0..MaxJobSkills}

\* no priorities, or one skill with a priority of 0.10, 0.50 or 0.95
PriorityLists ==
    {<<>>} \cup {<<[skill |-> s, priority |-> p]>> :
                    s \in JobSkillNames, p \in {10, 50, 95}}

\* title + keywords + skills, as detect_role_type joins them
job_text(job) ==
    job.title_signals
        \cup UNION {SignalsInName(job.skills[i]) : i \in DOMAIN job.skills}

InitJob ==
    /\ pc = "job"
    /\ pos = 0
    /\ results = <<>>
    /\ pre = <<>>
    /\ calls = 0
    /\ adj_in = None
    /\ adj_out = None
    /\ args \in [title_signals : SUBSET TitleSignals, skills : JobSkillLists,
                 skill_priorities : PriorityLists]
    /\ ret = None

\* create_job keeps the priority map with the job; rank_resumes_for_job
\* builds job_payload from the job row; score_resume detects the role and
\* classifies the skills
RankJob ==
    /\ pc = "job"
    /\ LET job_payload == [skills |-> args.skills, keywords |-> <<>>,
                           min_experience |-> 0]
           role_type == detect_role_type(job_text(args))
       IN  ret' = [priority_map |-> get_skill_priority_map(args.skill_priorities),
                   job_payload |-> job_payload,
                   role_type |-> role_type,
                   skill_importance |->
                       classify_job_skills(job_payload.skills, role_type)]
    /\ pc' = "classified"
    /\ UNCHANGED <<pos, results, pre, calls, adj_in, adj_out, args>>

NextJob == RankJob

SpecJob == InitJob /\ [][NextJob]_vars

\* the tier the position rule gives to index i (from 1) of a list of length n:
\* important when (i - 1) / n <= 0.75
PositionTier(i, n) == IF 4 * (i - 1) <= 3 * n THEN "important" ELSE "optional"

IsCriticalFor(skill, role_type) ==
    normalize_skill(skill) \in _ROLE_CRITICAL(role_type)

\* C18 as stated: a skill whose canonical form is in the role's critical set
\* is critical wherever it stands; any other skill is important when it
\* stands within the first 75% of the list and optional otherwise.
C18_TierByOwnPosition ==
    pc = "classified" =>
        \A i \in DOMAIN args.skills :
            ret.skill_importance[lower(args.skills[i])] =
                IF IsCriticalFor(args.skills[i], ret.role_type) THEN "critical"
                ELSE PositionTier(i, Len(args.skills))

\* C18 as amended: the same, with the position of a name that occurs more
\* than once taken at its last occurrence.
C18_TierByLastPosition ==
    pc = "classified" =>
        /\ DOMAIN ret.skill_importance = {lower(args.skills[i]) : i \in DOMAIN args.skills}
        /\ \A i \in DOMAIN args.skills :
              (\A k \in DOMAIN args.skills :
                    lower(args.skills[k]) = lower(args.skills[i]) => k <= i)
              => ret.skill_importance[lower(args.skills[i])] =
                    IF IsCriticalFor(args.skills[i], ret.role_type) THEN "critical"
                    ELSE PositionTier(i, Len(args.skills))

\* cobol opens and closes a five-skill backend list and is optional; py, an
\* alias of python, is critical in the middle of it
C18_Witness ==
    /\ pc = "classified"
    /\ args.skills = <<"cobol", "py", "py", "py", "cobol">>
    /\ ret.role_type = "backend"
    /\ ret.skill_importance["cobol"] = "optional"
    /\ ret.skill_importance["py"] = "critical"

\* the tier C19 derives from a priority (in hundredths)
PriorityTier(priority) ==
    IF priority >= 90 THEN "critical"
    ELSE IF priority >= 20 THEN "important"
    ELSE "optional"

\* C19: a required skill with a supplied priority is weighted by the tier of
\* that priority, whatever its position and the role's critical set.
C19_PriorityOverridesTier ==
    pc = "classified" =>
        \A key \in DOMAIN ret.priority_map \cap DOMAIN ret.skill_importance :
            ret.skill_importance[key] = PriorityTier(ret.priority_map[key])

HitCount(i, text) == Cardinality(ROLE_KEYWORDS[i].signals \cap text)

\* C20 as stated: the role with strictly the most signal hits, backend when
\* there is no hit or the greatest count is tied.
C20_RoleWithMostHits ==
    pc = "classified" =>
        LET text == job_text(args)
            best == {i \in DOMAIN ROLE_KEYWORDS :
                        /\ HitCount(i, text) > 0
                        /\ \A k \in DOMAIN ROLE_KEYWORDS \ {i} :
                              HitCount(k, text) < HitCount(i, text)}
        IN  ret.role_type = IF best = {} THEN "backend"
                            ELSE ROLE_KEYWORDS[CHOOSE i \in best : TRUE].role

\* C20 as amended: the first role, in the order backend, frontend, fullstack,
\* devops, data, ml, that has at least one hit, backend when there is none;
\* the counts are not compared.
C20_FirstRoleWithAnyHit ==
    pc = "classified" =>
        LET text == job_text(args)
        IN  \/ /\ \A i \in DOMAIN ROLE_KEYWORDS : HitCount(i, text) = 0
               /\ ret.role_type = "backend"
            \/ \E i \in DOMAIN ROLE_KEYWORDS :
                  /\ HitCount(i, text) > 0
                  /\ \A k \in 1..(i - 1) : HitCount(k, text) = 0
                  /\ ret.role_type = ROLE_KEYWORDS[i].role

\* one backend hit wins over two frontend hits
C20_Witness ==
    /\ pc = "classified"
    /\ job_text(args) = {"api", "react", "ui"}
    /\ ret.role_type = "backend"

(***************************************************************************)
(* extract_years_of_experience on a text.  A text is a sequence of tokens  *)
(* separated by single spaces; the regular expressions of the function are *)
(* followed token by token: an optional month, a year, a separator, an     *)
(* optional month and an end (a year or a marker of the present), matches  *)
(* found left to right without overlap, as re.findall does.                *)
(***************************************************************************)

\* the clock read at import (scorer.py: _NOW = datetime.now())
CURRENT_YEAR == 2026
CURRENT_MONTH == 11

\* the abbreviations and names the tokens use, as MONTH_MAP has them
MONTH_MAP == [jan |-> 1, jun |-> 6, jul |-> 7, dec |-> 12]

\* the year tokens and int() of each
YearValue ==
    [t \in {"1969", "1970", "2018", "2020", "2025", "2026", "2027", "2028"} |->
        CASE t = "1969" -> 1969
          [] t = "1970" -> 1970
          [] t = "2018" -> 2018
          [] t = "2020" -> 2020
          [] t = "2025" -> 2025
          [] t = "2026" -> 2026
          [] t = "2027" -> 2027
          [] t = "2028" -> 2028]

\* the other number tokens and float() of each, in tenths
NumberTenths ==
    [t \in {"0", "3", "5", "2.5", "45", "45.1", "50"} |->
        CASE t = "0" -> 0
          [] t = "3" -> 30
          [] t = "5" -> 50
          [] t = "2.5" -> 25
          [] t = "45" -> 450
          [] t = "45.1" -> 451
          [] t = "50" -> 500]

\* normalize_text on one token: lower case, unicode dashes (u2013 is the en
\* dash, u2014 the em dash) to the hyphen
normalize_token(t) ==
    CASE t = "Jan" -> "jan"
      [] t = "Dec" -> "dec"
      [] t = "Present" -> "present"
      [] t = "Years" -> "years"
      [] t = "Experience" -> "experience"
      [] t = "u2013" -> "-"
      [] t = "u2014" -> "-"
      [] OTHER -> t

\* normalize_text on a text of tokens separated by single spaces
normalize_tokens(text) == [i \in DOMAIN text |-> normalize_token(text[i])]

tok(tn, i) == IF i \in DOMAIN tn THEN tn[i] ELSE ""

\* _mon, _yr, _sep and the markers of _end
IsMon(t) == t \in DOMAIN MONTH_MAP
IsYr(t) == t \in DOMAIN YearValue
IsSep(t) == t \in {"-", "to", "till"}
IsMarker(t) == t \in {"present", "current", "now", "ongoing"}

\* _end at token k: <<e_mon_s, e_part, next>> or <<>>
end_core(tn, k, e_mon_s) ==
    IF IsYr(tok(tn, k)) \/ IsMarker(tok(tn, k))
    THEN <<e_mon_s, tok(tn, k), k + 1>>
    ELSE IF tok(tn, k) \in {"till", "to"} /\ tok(tn, k + 1) = "date"
    THEN <<e_mon_s, tok(tn, k) \o " date", k + 2>>
    ELSE <<>>

end_at(tn, k) ==
    IF IsMon(tok(tn, k)) /\ end_core(tn, k + 1, tok(tn, k)) # <<>>
    THEN end_core(tn, k + 1, tok(tn, k))
    ELSE end_core(tn, k, "")

\* _yr _sep _end from token j, after the start month s_mon_s: the match in
\* a sequence of one, or <<>>
range_from_bare_year(tn, j, s_mon_s) ==
    IF IsYr(tok(tn, j))
    THEN IF IsSep(tok(tn, j + 1)) /\ end_at(tn, j + 2) # <<>>
         THEN LET e == end_at(tn, j + 2)
              IN  <<[s_mon_s |-> s_mon_s, s_yr_s |-> tok(tn, j),
                     e_mon_s |-> e[1], e_part |-> e[2], next |-> e[3]]>>
         ELSE <<[s_mon_s |-> s_mon_s, s_yr_s |-> tok(tn, j),
                 e_mon_s |-> "", e_part |-> "present", next |-> j + 1]>>
    ELSE <<>>

range_from(tn, j, s_mon_s) ==
    IF IsYr(tok(tn, j)) /\ IsSep(tok(tn, j + 1)) /\ end_at(tn, j + 2) # <<>>
    THEN LET e == end_at(tn, j + 2)
         IN  <<[s_mon_s |-> s_mon_s, s_yr_s |-> tok(tn, j),
                e_mon_s |-> e[1], e_part |-> e[2], next |-> e[3]]>>
    ELSE <<>>

\* pattern.match at token i: the optional month is tried first
range_at(tn, i) ==
    IF IsMon(tok(tn, i)) /\ range_from(tn, i + 1, tok(tn, i)) # <<>>
    THEN range_from(tn, i + 1, tok(tn, i))
    ELSE range_from(tn, i, "")

\* pattern.findall(tn), from token i on
RECURSIVE range_findall(_, _)
range_findall(tn, i) ==
    IF i > Len(tn) THEN <<>>
    ELSE IF range_at(tn, i) # <<>>
    THEN range_at(tn, i) \o range_findall(tn, range_at(tn, i)[1].next)
    ELSE range_findall(tn, i + 1)

\* _parse_year_month: <<year, month>>, month 6 when there is none
_parse_year_month(month_s, year_s) ==
    <<YearValue[year_s], DictGet(MONTH_MAP, month_s, 6)>>

\* the body of the loop over the matches: the interval <<sa, ea>> of one
\* match, or <<>> when the match is skipped
period_of(m) ==
    LET s == _parse_year_month(m.s_mon_s, m.s_yr_s)
        e == IF IsYr(m.e_part) THEN _parse_year_month(m.e_mon_s, m.e_part)
             ELSE <<CURRENT_YEAR, CURRENT_MONTH>>
        sa == s[1] * 12 + s[2]
        ea == e[1] * 12 + e[2]
    IN  IF ~(1970 <= s[1] /\ s[1] <= CURRENT_YEAR) THEN <<>>
        ELSE IF ~(s[1] <= e[1] /\ e[1] <= CURRENT_YEAR + 1) THEN <<>>
        ELSE IF ea > sa THEN << <<sa, ea>> >> ELSE <<>>

RECURSIVE periods_of(_)
periods_of(ms) ==
    IF ms = <<>> THEN <<>> ELSE period_of(Head(ms)) \o periods_of(Tail(ms))

extract_periods(tn) == periods_of(range_findall(tn, 1))

\* (\d+(?:\.\d+)?): a number token or the digits of a year token, in tenths
IsNum(t) == t \in DOMAIN NumberTenths \/ IsYr(t)
float_tenths(t) == IF IsYr(t) THEN 10 * YearValue[t] ELSE NumberTenths[t]

IsAdjective(t) == t \in {"relevant", "professional", "industry", "work", "total"}

\* explicit_re.match at token i: the token after the match, 0 for no match
explicit_at_of_required(tn, i) ==
    LET a == IF tok(tn, i + 1) = "+" THEN i + 2 ELSE i + 1
        b == a + 1
        c == b + 1
        d == IF IsAdjective(tok(tn, c)) THEN c + 1 ELSE c
    IN  IF /\ IsNum(tok(tn, i))
           /\ tok(tn, a) \in {"year", "years"}
           /\ tok(tn, b) = "of"
           /\ tok(tn, d) = "experience"
        THEN d + 1
        ELSE 0

explicit_at(tn, i) ==
    LET a == IF tok(tn, i + 1) = "+" THEN i + 2 ELSE i + 1
        b == a + 1
        c == IF tok(tn, b) = "of" THEN b + 1 ELSE b
        d == IF IsAdjective(tok(tn, c)) THEN c + 1 ELSE c
    IN  IF /\ IsNum(tok(tn, i))
           /\ tok(tn, a) \in {"year", "years"}
           /\ tok(tn, d) = "experience"
        THEN d + 1
        ELSE 0

\* explicit_re.findall(tn), from token i on
RECURSIVE explicit_findall(_, _)
explicit_findall(tn, i) ==
    IF i > Len(tn) THEN <<>>
    ELSE IF explicit_at(tn, i) # 0
    THEN <<float_tenths(tn[i])>> \o explicit_findall(tn, explicit_at(tn, i))
    ELSE explicit_findall(tn, i + 1)

\* extract_years_of_experience(text), in tenths of a year
extract_years_of_text_explicit_first(text) ==
    LET tn == normalize_tokens(text)
        found == explicit_findall(tn, 1)
    IN  extract_years_of_experience(
            IF found # <<>> THEN <<>> ELSE extract_periods(tn), found)

extract_years_of_text(text) ==
    LET tn == normalize_tokens(text)
        periods == extract_periods(tn)
    IN  extract_years_of_experience(
            periods, IF periods # <<>> THEN <<>> ELSE explicit_findall(tn, 1))

(***************************************************************************)
(* SpecYears: extract_years_of_experience is called once on a text.        *)
(***************************************************************************)

MaxTextTokens == 4

\* any short text over the tokens the patterns are made of
FreeTokens ==
    {"jan", "2018", "2027", "-", "to", "present", "date", "5", "years",
     "experience"}

FreeTexts ==
    UNION {[1..n -> FreeTokens] : n \in 0..MaxTextTokens}

Opt(t) == {<<>>, <<t>>}

\* one date range as a resume writes it
RangeTexts ==
    {sm \o <<sy>> \o <<"-">> \o em \o <<e>> :
        sm \in Opt("Dec"), sy \in {"1969", "1970", "2018", "2020", "2025", "2027"},
        em \in Opt("jul"),
        e \in {"1970", "2018", "2020", "2027", "2028", "Present"}}

Fillers == {<<>>, <<"word">>, <<"-">>}

\* one range under each separator and each marker of the present
MarkedTexts ==
    {sm \o <<"2018">> \o sep \o e :
        sm \in Opt("Jan"),
        sep \in {<<>>, <<"-">>, <<"u2013">>, <<"u2014">>, <<"to">>, <<"till">>,
                 <<"-", "-">>},
        e \in {<<"2020">>, <<"present">>, <<"current">>, <<"now">>,
               <<"ongoing">>, <<"till", "date">>, <<"to", "date">>,
               <<"date">>, <<"jun">>, <<"jun", "now">>, <<"word">>}}

\* one explicit statement of a number of years
StatementTexts ==
    {<<n>> \o p \o <<y>> \o o \o a \o <<"Experience">> :
        n \in {"0", "3", "5", "2.5", "45", "45.1", "50", "2020"},
        p \in Opt("+"), y \in {"Years", "year"}, o \in Opt("of"),
        a \in Opt("professional")}

InitYears ==
    /\ pc = "extract"
    /\ pos = 0
    /\ results = <<>>
    /\ pre = <<>>
    /\ calls = 0
    /\ adj_in = None
    /\ adj_out = None
    /\ args = None
    /\ ret = None

Extracted(text) ==
    /\ pc = "extract"
    /\ args' = [text |-> text]
    /\ ret' = extract_years_of_text(text)
    /\ pc' = "extracted"
    /\ UNCHANGED <<pos, results, pre, calls, adj_in, adj_out>>

ExtractFree ==
    /\ pc = "extract"
    /\ \E text \in FreeTexts : Extracted(text)

\* two ranges that may leave a gap, overlap or be invalid
ExtractRanges ==
    /\ pc = "extract"
    /\ \E a \in RangeTexts, f \in Fillers, b \in RangeTexts \cup {<<>>} :
        Extracted(a \o f \o b)

ExtractMarked ==
    /\ pc = "extract"
    /\ \E a \in MarkedTexts, b \in Opt("2020") : Extracted(b \o a)

\* explicit statements, alone or beside a range or a bare year
ExtractStatements ==
    /\ pc = "extract"
    /\ \E r \in {<<>>, <<"2018", "-", "2020">>, <<"2020", "-", "2018">>,
                 <<"2025">>, <<"word">>,
                 <<"2018", "-", "2020", "word", "2025", "-", "Present">>},
          a \in StatementTexts, b \in StatementTexts \cup {<<>>} :
        Extracted(a \o r \o b)

NextYears == ExtractFree \/ ExtractRanges \/ ExtractMarked \/ ExtractStatements

SpecYears == InitYears /\ [][NextYears]_vars

NormArgs == normalize_tokens(args.text)

\* the set of the elements of a sequence, its greatest and its least
SetMax(S) == CHOOSE x \in S : \A y \in S : y <= x
SetMin(S) == CHOOSE x \in S : \A y \in S : x <= y

\* C21: when at least one valid interval is extracted the result is the span
\* from the earliest start to the latest end over all the valid intervals, in
\* years rounded to one decimal and clamped to [0, 45], whatever the gaps and
\* overlaps between the intervals and whatever explicit statements the text has
C21_SpanOfIntervals ==
    (pc = "extracted" /\ extract_periods(NormArgs) # <<>>) =>
        LET ps == extract_periods(NormArgs)
            earliest == SetMin({ps[i][1] : i \in DOMAIN ps})
            latest == SetMax({ps[i][2] : i \in DOMAIN ps})
        IN  ret = Min(Max(round_months_to_tenths(latest - earliest), 0),
                      10 * MAX_EXP_YEARS)

\* two intervals with a gap between them beside an explicit statement of 3
\* years: the result is the 8.4 years of the span, the lengths add up to 3.4
C21_Witness ==
    /\ pc = "extracted"
    /\ args.text = <<"3", "Years", "of", "Experience",
                     "2018", "-", "2020", "word", "2025", "-", "Present">>
    /\ Len(extract_periods(NormArgs)) = 2
    /\ ret = 84

\* an end of a range at token k: a year or a marker of the present
EndWordAt(tn, k) ==
    \/ IsYr(tok(tn, k))
    \/ IsMarker(tok(tn, k))
    \/ (tok(tn, k) \in {"to", "till"} /\ tok(tn, k + 1) = "date")

\* the year token at i is followed by a separator and an end, with or without
\* a month before the end
FollowedByRange(tn, i) ==
    /\ IsSep(tok(tn, i + 1))
    /\ \/ EndWordAt(tn, i + 2)
       \/ (IsMon(tok(tn, i + 2)) /\ EndWordAt(tn, i + 3))

\* an explicit statement starts at token i: a number, an optional plus, year
\* or years, an optional "of", an optional adjective, "experience"
StatementAt(tn, i) ==
    /\ IsNum(tok(tn, i))
    /\ \E p \in 0..1, o \in 0..1, a \in 0..1 :
        /\ p = 1 => tok(tn, i + 1) = "+"
        /\ tok(tn, i + 1 + p) \in {"year", "years"}
        /\ o = 1 => tok(tn, i + 2 + p) = "of"
        /\ a = 1 => IsAdjective(tok(tn, i + 2 + p + o))
        /\ tok(tn, i + 2 + p + o + a) = "experience"

Statements(tn) == {i \in DOMAIN tn : StatementAt(tn, i)}

\* C22: a text whose year tokens are all bare (none is followed by a
\* separator and an end year or marker of the present) and that has no
\* explicit statement gives exactly 0.0
C22_BareYearsGiveZero ==
    (/\ pc = "extracted"
     /\ \A i \in DOMAIN NormArgs : IsYr(NormArgs[i]) => ~FollowedByRange(NormArgs, i)
     /\ Statements(NormArgs) = {}) => ret = 0

\* a year beside a month, a separator and a word that is no end
C22_Witness ==
    /\ pc = "extracted"
    /\ args.text = <<"jan", "2018", "-", "date">>
    /\ ret = 0

\* C23 as stated: with no valid interval the result is the greatest number of
\* the explicit statements, and 0.0 when there is none
C23_MaxOfStatements ==
    (pc = "extracted" /\ extract_periods(NormArgs) = <<>>) =>
        IF Statements(NormArgs) # {}
        THEN ret = SetMax({float_tenths(NormArgs[i]) : i \in Statements(NormArgs)})
        ELSE ret = 0

\* C23 amended: with no valid interval the result is the greatest number of
\* the explicit statements when that number is above 0 and at most 45, and
\* 0.0 otherwise: when there is no statement, or the greatest number is 0 or
\* above 45
C23_MaxWithinLimits ==
    (pc = "extracted" /\ extract_periods(NormArgs) = <<>>) =>
        IF Statements(NormArgs) # {}
        THEN LET val == SetMax({float_tenths(NormArgs[i]) :
                                    i \in Statements(NormArgs)})
             IN  ret = IF 0 < val /\ val <= 10 * MAX_EXP_YEARS THEN val ELSE 0
        ELSE ret = 0

\* statements of 5 and of 50 years and no interval: the result is 0.0
C23_Witness ==
    /\ pc = "extracted"
    /\ args.text = <<"5", "Years", "of", "Experience", "word",
                     "50", "+", "Years", "Experience">>
    /\ extract_periods(NormArgs) = <<>>
    /\ ret = 0

(***************************************************************************)
(* normalize_text on a text of characters.  A character is a string of one *)
(* character; the unicode ones are named by their code point: u2013 the en *)
(* dash, u2014 the em dash, u2022 the bullet, u25a0 the black square.      *)
(***************************************************************************)

MaxChars == 5

Chars == {"A", "a", "-", "u2013", "u2022", " ", "\t", "\n"}

Texts == UNION {[1..n -> Chars] : n \in 0..MaxChars}

\* re.sub of every character of a class by one replacement
sub_chars(class, repl, t) ==
    [i \in DOMAIN t |-> IF t[i] \in class THEN repl ELSE t[i]]

\* re.sub(class+, repl, t): every maximal run of the class becomes repl
RECURSIVE sub_runs(_, _, _)
sub_runs(class, repl, t) ==
    IF t = <<>> THEN <<>>
    ELSE IF Head(t) \notin class THEN <<Head(t)>> \o sub_runs(class, repl, Tail(t))
    ELSE IF Len(t) >= 2 /\ t[2] \in class THEN sub_runs(class, repl, Tail(t))
    ELSE <<repl>> \o sub_runs(class, repl, Tail(t))

\* str.lower()
lower_chars(t) == sub_chars({"A"}, "a", t)

normalize_text_blanks_first(text) ==
    LET t1 == lower_chars(text)
        t2 == sub_chars({"u2013", "u2014"}, "-", t1)
        t3 == sub_runs({" ", "\t"}, " ", t2)
        t4 == sub_chars({"u2022", "u00b7", "u25b8", "u25aa", "u25a0"}, " ", t3)
        \* \n{2,}: a lone newline is a run of one and stays as it is
    IN  sub_runs({"\n"}, "\n", t4)

normalize_text(text) ==
    LET t1 == lower_chars(text)
        t2 == sub_chars({"u2013", "u2014"}, "-", t1)
        t3 == sub_chars({"u2022", "u00b7", "u25b8", "u25aa", "u25a0"}, " ", t2)
        t4 == sub_runs({" ", "\t"}, " ", t3)
        \* \n{2,}: a lone newline is a run of one and stays as it is
    IN  sub_runs({"\n"}, "\n", t4)

InitNorm ==
    /\ pc = "normalize"
    /\ pos = 0
    /\ results = <<>>
    /\ pre = <<>>
    /\ calls = 0
    /\ adj_in = None
    /\ adj_out = None
    /\ args = None
    /\ ret = None

\* normalize_text is called on a text
Normalize ==
    /\ pc = "normalize"
    /\ \E text \in Texts :
        /\ args' = [text |-> text]
        /\ ret' = normalize_text(text)
    /\ pc' = "normalized"
    /\ UNCHANGED <<pos, results, pre, calls, adj_in, adj_out>>

\* normalize_text is called again on its own result
NormalizeAgain ==
    /\ pc = "normalized"
    /\ args' = [text |-> ret]
    /\ ret' = normalize_text(ret)
    /\ pre' = [args |-> args, ret |-> ret]
    /\ pc' = "renormalized"
    /\ UNCHANGED <<pos, results, calls, adj_in, adj_out>>

NextNorm == Normalize \/ NormalizeAgain

SpecNorm == InitNorm /\ [][NextNorm]_vars

\* C27: normalizing the result of normalize_text gives the same text, and the
\* empty text gives the empty text
C27_NormalizeIdempotent ==
    /\ pc = "renormalized" => (args.text = pre.ret /\ ret = pre.ret)
    /\ (pc = "normalized" /\ args.text = <<>>) => ret = <<>>

\* a text with an upper-case letter, an en dash, a bullet, a tab and a newline
\* was normalized twice
C27_Witness ==
    /\ pc = "renormalized"
    /\ pre.args.text = <<"A", "u2013", "u2022", "\t", "\n">>
    /\ pre.ret = <<"a", "-", " ", "\n">>
    /\ ret = pre.ret

(***************************************************************************)
(* Determinism of match_skills across runs (SpecMatch).                    *)
(***************************************************************************)

\* C24: the output of match_skills, the order of the matched, missing and
\* bonus lists included, is the one every run gives on the same text and
\* required list, whatever order the run iterates ALL_CANONICAL in
C24_SameOutputInEveryOrder ==
    pc = "matched" =>
        \A order \in CanonicalOrders :
            match_skills(args.text_norm, args.required_skills, order) = ret

(***************************************************************************)
(* score_resume on a job without required skills (SpecScore).              *)
(***************************************************************************)

\* the note apply_adjustments writes for k missing critical skills
CriticalNote(k) ==
    "Missing " \o ToString(k) \o " critical skill(s) = -"
        \o ToString(critical_penalty(k)) \o " pts"

\* C25: with an empty required list score_resume returns empty matched and
\* missing lists, the neutral skill score 65, no penalty for missing critical
\* skills and a final score in [0,100], whatever the resume, the number of
\* keywords and the minimum years, zero included
C25_EmptyJobNeutral ==
    (pc = "scored" /\ args.n = 0) =>
        /\ ret.matched = <<>>
        /\ ret.missing = <<>>
        /\ ret.skill_score = 65
        /\ ret.total_weight = 0
        /\ ret.critical_missing = <<>>
        /\ \A i \in DOMAIN ret.adj_notes, k \in 1..MaxSkillList :
              ret.adj_notes[i] # CriticalNote(k)
        /\ ret.final_score \in 0..100

\* an empty resume against a job with no skills, no keywords and no minimum
\* years
C25_Witness ==
    /\ pc = "scored"
    /\ args = DefaultSig
    /\ args.n = 0 /\ args.n_keywords = 0 /\ args.required_years = 0
    /\ ret.skill_score = 65
    /\ ret.final_score = 27

(***************************************************************************)
(* SpecBatch: rank_resumes_for_job on a batch of resumes some of which     *)
(* fail.  What happens to a resume is fixed by what its file, its parsing, *)
(* its text, the update of its parsed data and its scoring do.             *)
(***************************************************************************)

\* A resume of the batch: exists: os.path.exists(path); parses: parse_resume
\* returns; text_len: len(text.strip()); update_ok: update_resume_parsed_data
\* returns; scores: score_resume returns, with final_score.
ResumeFates ==
    { [exists |-> FALSE, parses |-> TRUE, text_len |-> 20, update_ok |-> TRUE,
       scores |-> TRUE, final_score |-> 70],
      [exists |-> TRUE, parses |-> FALSE, text_len |-> 20, update_ok |-> TRUE,
       scores |-> TRUE, final_score |-> 70],
      [exists |-> TRUE, parses |-> TRUE, text_len |-> 0, update_ok |-> TRUE,
       scores |-> TRUE, final_score |-> 70],
      [exists |-> TRUE, parses |-> TRUE, text_len |-> 19, update_ok |-> TRUE,
       scores |-> TRUE, final_score |-> 70],
      [exists |-> TRUE, parses |-> TRUE, text_len |-> 20, update_ok |-> FALSE,
       scores |-> TRUE, final_score |-> 70],
      [exists |-> TRUE, parses |-> TRUE, text_len |-> 20, update_ok |-> FALSE,
       scores |-> FALSE, final_score |-> 70],
      [exists |-> TRUE, parses |-> TRUE, text_len |-> 20, update_ok |-> TRUE,
       scores |-> FALSE, final_score |-> 70],
      [exists |-> TRUE, parses |-> TRUE, text_len |-> 20, update_ok |-> TRUE,
       scores |-> TRUE, final_score |-> 30],
      [exists |-> TRUE, parses |-> TRUE, text_len |-> 20, update_ok |-> TRUE,
       scores |-> TRUE, final_score |-> 98] }

Batches == UNION {[1..n -> ResumeFates] : n \in 0..MaxPool}

\* the body of the Pass-1 loop for one resume: "skip" for a continue, "score"
\* when the entry is appended, "raise" when an exception leaves the function;
\* the except branch of the update only logs and the turn goes on
pass1_outcome_update_unguarded(r) ==
    IF ~r.exists THEN "skip"
    ELSE IF ~r.parses THEN "skip"
    ELSE IF r.text_len < 20 THEN "skip"
    ELSE IF ~r.update_ok THEN "raise"
    ELSE IF ~r.scores THEN "skip"
    ELSE "score"

pass1_outcome(r) ==
    IF ~r.exists THEN "skip"
    ELSE IF ~r.parses THEN "skip"
    ELSE IF r.text_len < 20 THEN "skip"
    ELSE IF ~r.update_ok /\ ~r.scores THEN "skip"
    ELSE IF ~r.update_ok THEN "score"
    ELSE IF ~r.scores THEN "skip"
    ELSE "score"

InitBatch ==
    /\ pc = "pass1"
    /\ pos = 0
    /\ results = <<>>
    /\ pre = <<>>
    /\ calls = 0
    /\ adj_in = None
    /\ adj_out = None
    /\ args \in {[resumes |-> b] : b \in Batches}
    /\ ret = None

\* one turn of the Pass-1 loop
BatchTurn ==
    /\ pc = "pass1"
    /\ pos < Len(args.resumes)
    /\ LET r == args.resumes[pos + 1]
           outcome == pass1_outcome(r)
       IN  /\ pc' = IF outcome = "raise" THEN "raised" ELSE pc
           /\ pos' = IF outcome = "raise" THEN pos ELSE pos + 1
           /\ results' =
                IF outcome = "score"
                THEN Append(results,
                            result_entry(pos + 1,
                                         score_resume(r.final_score, 70, 50)))
                ELSE results
    /\ UNCHANGED <<pre, calls, adj_in, adj_out, args, ret>>

\* the loop is over and nothing was scored: return []
BatchReturnEmpty ==
    /\ pc = "pass1"
    /\ pos = Len(args.resumes)
    /\ results = <<>>
    /\ pc' = "returned"
    /\ UNCHANGED <<pos, results, pre, calls, adj_in, adj_out, args, ret>>

\* the loop is over: sort by raw score, calibrate, return the list
BatchPass2 ==
    /\ pc = "pass1"
    /\ pos = Len(args.resumes)
    /\ results # <<>>
    /\ pre' = sort_by_score(results)
    /\ results' = calibrate_scores(sort_by_score(results))
    /\ calls' = 1
    /\ pc' = "returned"
    /\ UNCHANGED <<pos, adj_in, adj_out, args, ret>>

NextBatch == BatchTurn \/ BatchReturnEmpty \/ BatchPass2

SpecBatch == InitBatch /\ [][NextBatch]_vars

\* the resumes of the batch whose file exists, whose parsing returns a text of
\* 20 characters or more and whose scoring returns
ScoredSuccessfully ==
    {i \in DOMAIN args.resumes :
        /\ args.resumes[i].exists
        /\ args.resumes[i].parses
        /\ args.resumes[i].text_len >= 20
        /\ args.resumes[i].scores}

\* C26: no failure of a resume leaves rank_resumes_for_job as an exception;
\* at the return the loop has gone through every resume, the list handed to
\* calibrate_scores holds exactly the resumes scored successfully, each with
\* its own final score, and when there is none the function returns [] without
\* calibrating
C26_FailuresHandledLocally ==
    /\ pc # "raised"
    /\ pc = "returned" =>
        /\ pos = Len(args.resumes)
        /\ IF ScoredSuccessfully = {}
           THEN results = <<>> /\ calls = 0
           ELSE /\ calls = 1
                /\ Len(pre) = Cardinality(ScoredSuccessfully)
                /\ {pre[k].resume_id : k \in DOMAIN pre} = ScoredSuccessfully
                /\ \A k \in DOMAIN pre :
                      pre[k].raw_score = args.resumes[pre[k].resume_id].final_score
                /\ {results[k].resume_id : k \in DOMAIN results} = ScoredSuccessfully

\* a resume whose scoring raises, then one whose update raises and whose
\* scoring returns, then one whose file is missing: the second one is the pool
C26_Witness ==
    /\ pc = "returned"
    /\ Len(args.resumes) = 3
    /\ ~args.resumes[1].scores /\ args.resumes[1].exists /\ args.resumes[1].update_ok
    /\ ~args.resumes[2].update_ok /\ args.resumes[2].scores
    /\ ~args.resumes[3].exists
    /\ Len(results) = 1
    /\ results[1].resume_id = 2

(***************************************************************************)
(* The rescale window and the band targets of calibrate_scores (Spec).     *)
(***************************************************************************)

\* scaled = TARGET_BOT + (raw - pool_min) / pool_range * (TARGET_TOP -
\* TARGET_BOT), times pool_range
scaled_times_range(raw, pmin, pmax) ==
    TARGET_BOT(pmin) * pool_range(pmin, pmax)
        + (raw - pmin) * (TARGET_TOP(pmax) - TARGET_BOT(pmin))

\* a pool of two or more went through calibrate_scores; pre is the list as it
\* was handed over
CalibratedPool == pc = "returned" /\ calls >= 1 /\ Len(pre) >= 2

\* the range stated for the percentile band the candidate at idx falls in
StatedBand(idx, n) ==
    IF PctAtLeast(idx, n, 85) THEN <<82, 95>>
    ELSE IF PctAtLeast(idx, n, 65) THEN <<70, 82>>
    ELSE IF PctAtLeast(idx, n, 40) THEN <<58, 70>>
    ELSE IF PctAtLeast(idx, n, 20) THEN <<45, 58>>
    ELSE <<30, 45>>

\* C28: for a pool of n >= 2 the band target of every rank position lies in
\* the range stated for its percentile band: 82-95, 70-82, 58-70, 45-58, 30-45
C28_BandTargetInStatedRange ==
    CalibratedPool =>
        \A idx \in 0..(Len(pre) - 1) :
            /\ StatedBand(idx, Len(pre))[1] <= band_target(idx, Len(pre))
            /\ band_target(idx, Len(pre)) <= StatedBand(idx, Len(pre))[2]

\* C29: for a pool of two or more the window is well-formed, 25 <= bottom <=
\* top and 90 <= top <= 95, the rescale sends the greatest raw score to the
\* top bound and the least to the bottom bound, and a higher raw score never
\* gets a lower rescaled value
C29_WindowWellFormed ==
    CalibratedPool =>
        LET pmin == pool_min(pre)
            pmax == pool_max(pre)
            top == TARGET_TOP(pmax)
            bot == TARGET_BOT(pmin)
            rng == pool_range(pmin, pmax)
        IN  /\ 25 <= bot /\ bot <= top
            /\ 90 <= top /\ top <= 95
            /\ scaled_times_range(pmax, pmin, pmax) = top * rng
            /\ scaled_times_range(pmin, pmin, pmax) = bot * rng
            /\ \A i, j \in DOMAIN pre :
                  pre[i].score > pre[j].score =>
                      scaled_times_range(pre[i].score, pmin, pmax)
                          >= scaled_times_range(pre[j].score, pmin, pmax)

(***************************************************************************)
(* SpecFit: _determine_role_fit on every score and skill score.            *)
(***************************************************************************)

InitFit ==
    /\ pc = "fit"
    /\ pos = 0
    /\ results = <<>>
    /\ pre = <<>>
    /\ calls = 0
    /\ adj_in = None
    /\ adj_out = None
    /\ args = None
    /\ ret = None

DetermineRoleFit ==
    /\ pc = "fit"
    /\ \E score \in 0..100, skill_score \in 0..100 :
        /\ args' = [score |-> score, skill_score |-> skill_score]
        /\ ret' = _determine_role_fit(score, skill_score)
    /\ pc' = "fitted"
    /\ UNCHANGED <<pos, results, pre, calls, adj_in, adj_out>>

NextFit == DetermineRoleFit

SpecFit == InitFit /\ [][NextFit]_vars

\* C30 as stated: a score below 50 is irrelevant, a score in 50..64 is
\* weak_fit, and core_fit is given exactly when score >= 80 and skill >= 70
C30_FitFollowsScoreBands ==
    pc = "fitted" =>
        /\ args.score < 50 => ret = "irrelevant"
        /\ (50 <= args.score /\ args.score <= 64) => ret = "weak_fit"
        /\ ret = "core_fit" <=> (args.score >= 80 /\ args.skill_score >= 70)

\* C30 amended: core_fit exactly when score >= 80 and skill >= 70; otherwise
\* adjacent_fit when score >= 65 or skill >= 50; a score in 50..64 is weak_fit
\* and a score below 50 irrelevant only when the skill score is below 50
C30_FitWithSkillOverride ==
    pc = "fitted" =>
        /\ ret = "core_fit" <=> (args.score >= 80 /\ args.skill_score >= 70)
        /\ ret = "adjacent_fit" <=>
              (/\ ~(args.score >= 80 /\ args.skill_score >= 70)
               /\ (args.score >= 65 \/ args.skill_score >= 50))
        /\ ret = "weak_fit" <=>
              (50 <= args.score /\ args.score <= 64 /\ args.skill_score < 50)
        /\ ret = "irrelevant" <=> (args.score < 50 /\ args.skill_score < 50)

\* a score below 50 with a skill score of 50: adjacent_fit
C30_Witness ==
    /\ pc = "fitted"
    /\ args.score = 40
    /\ args.skill_score = 50
    /\ ret = "adjacent_fit"

====
